---- MODULE Spec2Model ----
(***************************************************************************)
(* Model of services/linkedin_lookup.py: the LinkedIn identity lookup with *)
(* its process-wide cache, permit semaphore, throttle and lazily built     *)
(* client, run as cooperative asyncio tasks.                               *)
(*                                                                         *)
(* Strings are sequences of one-character strings.  An Optional value is   *)
(* a sequence of length at most one: None is << >>, a present value x is   *)
(* << x >>.  A float score m/n is the pair << m, n >>; a confidence is an  *)
(* integer number of hundredths.                                           *)
(***************************************************************************)
EXTENDS Integers, Sequences, FiniteSets, TLC

VARIABLES
    cfg,          \* module constants read from the environment (lines 20-26)
    now,          \* time.monotonic()
    cache,        \* _CACHE, a set of << key, value >> pairs (one per key)
    semValue,     \* _SEMAPHORE._value
    semWaiters,   \* _SEMAPHORE._waiters (FIFO)
    client,       \* _CLIENT: None or << "client" >>
    clientInit,   \* _CLIENT_INITIALIZED
    lockHolder,   \* _THROTTLE_LOCK: None or << task >>
    lockWaiters,  \* _THROTTLE_LOCK._waiters (FIFO)
    lastTs,       \* _LAST_REQUEST_TS
    tasks,        \* one record per lookup coroutine
    batch,        \* the enrich_crew_with_linkedin call and its crew records
    log,          \* observable effects: backend call counters, warnings
    hist,         \* history of completed lookups and backend calls
    pure,         \* arguments and value of one call of a function without state
    prov          \* one TensorDockProvider.provision call (deployment/providers)

vars == << cfg, now, cache, semValue, semWaiters, client, clientInit,
           lockHolder, lockWaiters, lastTs, tasks, batch, log, hist, pure, prov >>

(***************************************************************************)
(* Bounds of the model.                                                    *)
(***************************************************************************)
NRec == 2          \* crew records of the batch (tasks 1..NRec)
NSolo == 1         \* slots for direct find_linkedin_profile callers
MaxSoloRuns == 1   \* direct lookups started per slot
MaxTime == 3       \* the clock stops ticking here

None == << >>
Some(x) == << x >>
IsNone(o) == o = << >>
The(o) == o[1]

(***************************************************************************)
(* str helpers: lower(), strip(), join, substring test.                    *)
(***************************************************************************)
UpperChars == << "A", "B", "C", "D", "E", "F", "G", "H", "I", "J", "K", "L", "M",
                 "N", "O", "P", "Q", "R", "S", "T", "U", "V", "W", "X", "Y", "Z" >>
LowerChars == << "a", "b", "c", "d", "e", "f", "g", "h", "i", "j", "k", "l", "m",
                 "n", "o", "p", "q", "r", "s", "t", "u", "v", "w", "x", "y", "z" >>
DigitChars == { "0", "1", "2", "3", "4", "5", "6", "7", "8", "9" }
SpaceChars == { " ", "\t", "\n" }

LowerChar(c) ==
    IF \E i \in 1..Len(UpperChars) : UpperChars[i] = c
    THEN LowerChars[CHOOSE i \in 1..Len(UpperChars) : UpperChars[i] = c]
    ELSE c

StrLower(s) == [i \in 1..Len(s) |-> LowerChar(s[i])]

RECURSIVE LStrip(_)
LStrip(s) == IF s # << >> /\ Head(s) \in SpaceChars THEN LStrip(Tail(s)) ELSE s

RECURSIVE RStrip(_)
RStrip(s) ==
    IF s # << >> /\ s[Len(s)] \in SpaceChars
    THEN RStrip(SubSeq(s, 1, Len(s) - 1))
    ELSE s

StrStrip(s) == RStrip(LStrip(s))

RECURSIVE StrJoin(_, _)
StrJoin(sep, parts) ==
    IF parts = << >> THEN << >>
    ELSE IF Len(parts) = 1 THEN parts[1]
    ELSE parts[1] \o sep \o StrJoin(sep, Tail(parts))

\* Python's `token in text`
StrContains(text, token) ==
    \E i \in 0..(Len(text) - Len(token)) :
        \A j \in 1..Len(token) : text[i + j] = token[j]

\* faulty variant: the person id is left out of the key
CacheKeyNoPerson(name, job, tmdb_person_id) ==
    StrJoin(<< "|" >>, << StrLower(StrStrip(name)), StrLower(StrStrip(job)) >>)

\* _cache_key, lines 37-41
_cache_key(name, job, tmdb_person_id) ==
    LET normalized_name == StrLower(StrStrip(name))
        normalized_job == StrLower(StrStrip(job))
        person_part == IF IsNone(tmdb_person_id) \/ The(tmdb_person_id) = << >>
                       THEN << >> ELSE The(tmdb_person_id)
    IN StrJoin(<< "|" >>, << person_part, normalized_name, normalized_job >>)

\* _tokenize_job, lines 53-55: re.split(r"[^a-z0-9]+", lower) keeping len > 2
IsTokenChar(c) ==
    c \in DigitChars \/ \E i \in 1..Len(LowerChars) : LowerChars[i] = c

RECURSIVE SplitRuns(_, _, _)
SplitRuns(s, cur, acc) ==
    IF s = << >> THEN Append(acc, cur)
    ELSE IF IsTokenChar(Head(s)) THEN SplitRuns(Tail(s), Append(cur, Head(s)), acc)
    ELSE IF Len(s) > 1 /\ ~IsTokenChar(s[2]) THEN SplitRuns(Tail(s), cur, acc)
    ELSE SplitRuns(Tail(s), << >>, Append(acc, cur))

\* faulty variant: tokens of length 3 are dropped as well
TokenizeLongerThan3(job) ==
    LET normalized == StrLower(job)
        pieces == SplitRuns(normalized, << >>, << >>)
    IN SelectSeq(pieces, LAMBDA token : Len(token) > 3)

_tokenize_job(job) ==
    LET normalized == StrLower(job)
        pieces == SplitRuns(normalized, << >>, << >>)
    IN SelectSeq(pieces, LAMBDA token : Len(token) > 2)

(***************************************************************************)
(* Backend payloads.  A candidate or a profile is a dict: a function from  *)
(* the keys the code reads to Optional strings (absent key = None); a      *)
(* profile also carries its "experience" list.                             *)
(***************************************************************************)
CandidateKeys == { "headline", "occupation", "summary", "title", "description",
                   "location", "locationName", "publicIdentifier",
                   "public_identifier", "username", "profileId", "id",
                   "profileUrl", "url", "fullName", "name", "firstName",
                   "lastName" }
ProfileKeys == { "headline", "summary", "about", "industryName", "industry",
                 "fullName" }
ItemKeys == { "title", "companyName", "description" }

\* dict.get(key) for a str-valued dict
Get(d, key) == IF key \in DOMAIN d THEN d[key] ELSE None
\* isinstance(value, str) and value
NonEmptyStr(v) == ~IsNone(v) /\ The(v) # << >>
\* a or b
Or(a, b) == IF NonEmptyStr(a) THEN a ELSE b

RECURSIVE CollectParts(_, _)
CollectParts(d, keys) ==
    IF keys = << >> THEN << >>
    ELSE LET value == Get(d, Head(keys))
         IN (IF NonEmptyStr(value) THEN << The(value) >> ELSE << >>)
            \o CollectParts(d, Tail(keys))

\* faulty variant: the aggregate text is not lower-cased
CandidateTextNoLower(candidate) ==
    LET parts == CollectParts(candidate,
                     << "headline", "occupation", "summary", "title", "description" >>)
        location == Or(Get(candidate, "location"), Get(candidate, "locationName"))
    IN StrJoin(<< " " >>, IF ~IsNone(location) THEN Append(parts, The(location)) ELSE parts)

\* _candidate_text, lines 147-156
_candidate_text(candidate) ==
    LET parts == CollectParts(candidate,
                     << "headline", "occupation", "summary", "title", "description" >>)
        location == Or(Get(candidate, "location"), Get(candidate, "locationName"))
        all == IF ~IsNone(location) THEN Append(parts, The(location)) ELSE parts
    IN StrLower(StrJoin(<< " " >>, all))

RECURSIVE ExperienceParts(_)
ExperienceParts(items) ==
    IF items = << >> THEN << >>
    ELSE CollectParts(Head(items), << "title", "companyName", "description" >>)
         \o ExperienceParts(Tail(items))

\* _profile_text, lines 159-175 (profile = [f |-> dict, experience |-> list])
_profile_text(profile) ==
    LET parts == CollectParts(profile.f,
                     << "headline", "summary", "about", "industryName", "industry",
                        "fullName" >>)
    IN StrLower(StrJoin(<< " " >>, parts \o ExperienceParts(profile.experience)))

\* float comparison a > b of two scores
ScoreGt(a, b) == a[1] * b[2] > b[1] * a[2]
ZeroScore == << 0, 1 >>

\* faulty variant: a token given twice is counted once
ScoreTextDistinct(text, tokens) ==
    IF text = << >> \/ tokens = << >> THEN ZeroScore
    ELSE LET matches == Cardinality({ tokens[i] : i \in { j \in 1..Len(tokens) :
                                                            StrContains(text, tokens[j]) } })
         IN IF matches = 0 THEN ZeroScore ELSE << matches, Len(tokens) >>

\* _score_text, lines 178-184
_score_text(text, tokens) ==
    IF text = << >> \/ tokens = << >> THEN ZeroScore
    ELSE LET matches == Cardinality({ i \in 1..Len(tokens) : StrContains(text, tokens[i]) })
         IN IF matches = 0 THEN ZeroScore ELSE << matches, Len(tokens) >>

\* round(score, 2) in hundredths; no score m/n with n < 8 lies on a rounding tie
Round2(score) == (200 * score[1] + score[2]) \div (2 * score[2])

RECURSIVE FirstNonEmpty(_, _)
FirstNonEmpty(d, keys) ==
    IF keys = << >> THEN None
    ELSE IF NonEmptyStr(Get(d, Head(keys))) THEN Get(d, Head(keys))
    ELSE FirstNonEmpty(d, Tail(keys))

InMarker == << "l", "i", "n", "k", "e", "d", "i", "n", ".", "c", "o", "m", "/", "i", "n", "/" >>

RECURSIVE StripSlashes(_)
StripSlashes(s) ==
    IF s # << >> /\ Head(s) = "/" THEN StripSlashes(Tail(s))
    ELSE IF s # << >> /\ s[Len(s)] = "/" THEN StripSlashes(SubSeq(s, 1, Len(s) - 1))
    ELSE s

\* slug of a profile URL, lines 194-195
UrlSlug(profile_url) ==
    LET starts == { i \in 0..(Len(profile_url) - Len(InMarker)) :
                      \A j \in 1..Len(InMarker) : profile_url[i + j] = InMarker[j] }
        last == CHOOSE i \in starts : \A k \in starts : k <= i
        tail == SubSeq(profile_url, last + Len(InMarker) + 1, Len(profile_url))
        marks == { i \in 1..Len(tail) : tail[i] = "?" }
        cut == IF marks = { } THEN tail
               ELSE SubSeq(tail, 1, (CHOOSE i \in marks : \A k \in marks : i <= k) - 1)
    IN StripSlashes(cut)

\* _extract_public_identifier, lines 187-198
_extract_public_identifier(candidate) ==
    LET value == FirstNonEmpty(candidate,
                     << "publicIdentifier", "public_identifier", "username",
                        "profileId", "id" >>)
        profile_url == Or(Get(candidate, "profileUrl"), Get(candidate, "url"))
    IN IF ~IsNone(value) THEN Some(StrStrip(The(value)))
       ELSE IF ~IsNone(profile_url) /\ StrContains(The(profile_url), InMarker)
                 /\ UrlSlug(The(profile_url)) # << >>
            THEN Some(UrlSlug(The(profile_url)))
       ELSE None

\* _candidate_name, lines 201-208
_candidate_name(candidate) ==
    LET full_name == Or(Get(candidate, "fullName"), Get(candidate, "name"))
        parts == CollectParts(candidate, << "firstName", "lastName" >>)
    IN IF NonEmptyStr(full_name) THEN full_name
       ELSE IF parts # << >> THEN Some(StrJoin(<< " " >>, parts))
       ELSE None

(***************************************************************************)
(* Inputs of the model: the queries callers make and the answers the       *)
(* backend can give.  Each is a small set of concrete values.              *)
(***************************************************************************)
Dict(pairs) == [k \in { p[1] : p \in pairs } |-> Some((CHOOSE p \in pairs : p[1] = k)[2])]

\* (name, job, tmdb_person_id); a name of None stands for a record whose name
\* is not a str, on which name.strip() raises
Queries == <<
    [name |-> Some(<< "A", "l" >>), job |-> << "v", "f", "x", " ", "a", "r", "t" >>, tmdb_person_id |-> Some(<< "7" >>)],
    [name |-> Some(<< " ", "A", "L" >>), job |-> << "V", "F", "X", " ", "A", "r", "t", " " >>, tmdb_person_id |-> Some(<< "7" >>)],
    [name |-> Some(<< "A", "l" >>), job |-> << "v", "f", "x", " ", "a", "r", "t" >>, tmdb_person_id |-> None],
    [name |-> None, job |-> << "v", "f", "x", " ", "a", "r", "t" >>, tmdb_person_id |-> None],
    [name |-> Some(<< "J", "a", "n", "e", " ", "D", "o", "e" >>), job |-> << "V", "i", "s", "u", "a", "l", " ", "E", "f", "f", "e", "c", "t", "s", " ", "S", "u", "p", "e", "r", "v", "i", "s", "o", "r" >>, tmdb_person_id |-> None] >>
WellFormed == { q \in 1..Len(Queries) : ~IsNone(Queries[q].name) }
\* the queries of direct callers; the last query is the one of scenario A
SoloQueries == { 1, 2, 3 }
JaneDoe == 5
\* the cache key and the job tokens of each query, computed once
KeyTable == [q \in WellFormed |->
                _cache_key(The(Queries[q].name), Queries[q].job, Queries[q].tmdb_person_id)]
KeyOf(q) == KeyTable[q]
AllKeys == { KeyOf(q) : q \in WellFormed }
TokenTable == [q \in WellFormed |-> _tokenize_job(Queries[q].job)]

CandA == Dict({ << "headline", << "V", "F", "X", " ", "l", "e", "a", "d" >> >>, << "publicIdentifier", << "a", "l", "-", "a" >> >>,
                << "fullName", << "A", "l", " ", "A" >> >> })
CandB == Dict({ << "headline", << "a", "r", "t", ",", " ", "v", "f", "x" >> >>, << "username", << " ", "a", "l", "-", "b" >> >>,
                << "firstName", << "A", "l" >> >>, << "lastName", << "B" >> >> })
CandN == Dict({ << "title", << "c", "o", "o", "k" >> >>, << "name", << "A", "l", " ", "N" >> >> })
Elem(d) == [dict |-> Some(d)]
NotADict == [dict |-> None]

\* what `await client.search_people(...)` does: raise, or return a response
SearchOutcomes == {
    [raised |-> TRUE, shape |-> "list", items |-> << >>],
    [raised |-> FALSE, shape |-> "data_list", items |-> << >>],
    [raised |-> FALSE, shape |-> "data_list", items |-> << Elem(CandA), Elem(CandB) >>],
    [raised |-> FALSE, shape |-> "list", items |-> << NotADict, Elem(CandN) >>],
    [raised |-> FALSE, shape |-> "other", items |-> << Elem(CandA) >>] }

ProfileGood == [f |-> Dict({ << "headline", << "A", "r", "t", " ", "D", "i", "r", "e", "c", "t", "o", "r" >> >>, << "fullName", << "A", "l", "a", "n", " ", "A" >> >> }),
                experience |-> << Dict({ << "title", << "V", "F", "X", " ", "a", "r", "t", "i", "s", "t" >> >> }) >>]
\* what `await client.get_profile_overview(public_id)` does
ProfileOutcomes == {
    [raised |-> TRUE, data |-> None],
    [raised |-> FALSE, data |-> None],
    [raised |-> FALSE, data |-> Some(ProfileGood)] }

\* the environment settings the process can be started with (lines 20-24)
Configs == {
    [lib |-> TRUE, apiKey |-> TRUE, concurrency |-> 1, interval |-> 1, maxResults |-> 3],
    [lib |-> TRUE, apiKey |-> TRUE, concurrency |-> 2, interval |-> 1, maxResults |-> 3],
    [lib |-> TRUE, apiKey |-> TRUE, concurrency |-> 1, interval |-> 0, maxResults |-> 1],
    [lib |-> TRUE, apiKey |-> FALSE, concurrency |-> 1, interval |-> 1, maxResults |-> 3],
    [lib |-> FALSE, apiKey |-> TRUE, concurrency |-> 1, interval |-> 1, maxResults |-> 3] }

(***************************************************************************)
(* The process state as one record, so that the code between two           *)
(* suspension points (one atomic step of the event loop) is a composition  *)
(* of functions from state to state.  `ret` is the value just returned.    *)
(***************************************************************************)
Tasks == 1..(NRec + NSolo)
BatchTasks == 1..NRec
SoloTasks == (NRec + 1)..(NRec + NSolo)

State == [cfg |-> cfg, now |-> now, cache |-> cache, semValue |-> semValue,
          semWaiters |-> semWaiters, client |-> client, clientInit |-> clientInit,
          lockHolder |-> lockHolder, lockWaiters |-> lockWaiters, lastTs |-> lastTs,
          tasks |-> tasks, batch |-> batch, log |-> log, hist |-> hist, ret |-> None]

Becomes(S) ==
    /\ cfg' = S.cfg
    /\ now' = S.now
    /\ cache' = S.cache
    /\ semValue' = S.semValue
    /\ semWaiters' = S.semWaiters
    /\ client' = S.client
    /\ clientInit' = S.clientInit
    /\ lockHolder' = S.lockHolder
    /\ lockWaiters' = S.lockWaiters
    /\ lastTs' = S.lastTs
    /\ tasks' = S.tasks
    /\ batch' = S.batch
    /\ log' = S.log
    /\ hist' = S.hist
    /\ UNCHANGED << pure, prov >>

\* a lookup coroutine: pc is where it is suspended
\*   "idle"        no coroutine in this slot
\*   "ready"       task created by asyncio.create_task, not yet run
\*   "wait_sem"    awaiting the semaphore's future (line 310)
\*   "sem_granted" the permit was handed over, the task has not resumed yet
\*   "wait_lock"   awaiting the throttle lock (line 137)
\*   "sleep"       in asyncio.sleep (line 141)
\*   "call"        awaiting the backend method (line 135 or 142)
\*   "done"        returned `result`;  "failed"  raised
\*   "cancelling"  Task.cancel() was called while the task was at `was`; the
\*                 CancelledError has not been thrown into it yet
\*   "cancelled"   ended with CancelledError
IdleTask == [pc |-> "idle", q |-> 0, phase |-> "none", best |-> None,
             best_score |-> ZeroScore, public_id |-> None, result |-> None,
             wakeAt |-> 0, callStart |-> 0, prevEnd |-> -1, prevRaised |-> FALSE,
             runs |-> 0, was |-> "none", trace |-> << >>]

\* the steps of a lookup in the order in which it takes them: "wait" (it is
\* suspended for a permit), "permit" (the semaphore is acquired), "search" and "profile" (a backend method is
\* called, with its argument), "end" (the call returned or raised), "release"
\* (the permit is given back), "cache" (_CACHE[cache_key] is assigned) and
\* "return"; "hit" when the key was found in the cache (line 302), with the
\* state of the shared resources at that moment
Step(name, arg) == [e |-> name, arg |-> arg]
NoteF(S, t, name, arg) == [S EXCEPT !.tasks[t].trace = Append(@, Step(name, arg))]

\* faulty variant: the cache is not looked at
CacheHasNever(S, key) == FALSE

\* dict operations on _CACHE
CacheHas(S, key) == \E e \in S.cache : e[1] = key
CacheGet(S, key) == (CHOOSE e \in S.cache : e[1] = key)[2]
CachePut(S, key, value) ==
    [S EXCEPT !.cache = { e \in S.cache : e[1] # key } \cup { << key, value >> }]

\* faulty variant: the warning is logged on every call
WarnEveryTimeF(S) ==
    [S EXCEPT !.log.warnings = @ + 1, !.clientInit = TRUE, !.ret = None]

\* _get_client, lines 73-129.  The body under _CLIENT_LOCK has no await, so the
\* lock is free whenever a coroutine reaches line 87 and is never waited for.
WarnOnceF(S) ==
    [S EXCEPT !.log.warnings = IF S.clientInit THEN @ ELSE @ + 1,
              !.clientInit = TRUE,
              !.ret = None]

\* faulty variant: a construction that failed is tried again by the next call
GetClientRetryF(S, constructOk) ==
    IF ~S.cfg.lib THEN WarnOnceF(S)
    ELSE IF ~S.cfg.apiKey THEN WarnOnceF(S)
    ELSE IF ~IsNone(S.client) THEN [S EXCEPT !.ret = S.client]
    ELSE LET built == IF constructOk THEN Some("client") ELSE None
         IN [S EXCEPT !.client = built,
                      !.clientInit = TRUE,
                      !.log.constructions = @ + 1,
                      !.ret = built]

GetClientF(S, constructOk) ==
    IF ~S.cfg.lib THEN WarnOnceF(S)
    ELSE IF ~S.cfg.apiKey THEN WarnOnceF(S)
    ELSE IF ~IsNone(S.client) THEN [S EXCEPT !.ret = S.client]
    ELSE IF S.clientInit THEN [S EXCEPT !.ret = None]
    ELSE LET built == IF constructOk THEN Some("client") ELSE None
         IN [S EXCEPT !.client = built,
                      !.clientInit = TRUE,
                      !.log.constructions = @ + 1,
                      !.ret = built]

\* a lookup returns `result` to its caller (or to its Task object)
FinishF(S, t, result) ==
    [S EXCEPT !.tasks[t] = [IdleTask EXCEPT !.pc = "done", !.q = S.tasks[t].q,
                                            !.result = result,
                                            !.runs = S.tasks[t].runs,
                                            !.trace = Append(S.tasks[t].trace,
                                                             Step("return", None))],
              !.hist.returned = @ \cup { << S.tasks[t].q, result >> }]

\* a lookup raises
FailF(S, t) ==
    [S EXCEPT !.tasks[t] = [IdleTask EXCEPT !.pc = "failed", !.q = S.tasks[t].q,
                                            !.runs = S.tasks[t].runs]]

\* the backend method is entered: lines 135 and 142
StartCallF(S, t) ==
    LET phase == S.tasks[t].phase
    IN [S EXCEPT !.tasks[t].pc = "call",
                 !.tasks[t].callStart = S.now,
                 !.tasks[t].prevEnd = S.hist.lastEnd,
                 !.tasks[t].prevRaised = S.hist.lastRaised,
                 !.tasks[t].trace =
                     Append(@, Step(phase, IF phase = "profile" THEN S.tasks[t].public_id
                                           ELSE None)),
                 !.log.search = IF phase = "search" THEN @ + 1 ELSE @,
                 !.log.profile = IF phase = "profile" THEN @ + 1 ELSE @,
                 !.hist.searches[KeyOf(S.tasks[t].q)] =
                     IF phase = "search" THEN @ + 1 ELSE @,
                 !.hist.firstCall = IF @ < 0 THEN S.now ELSE @]

\* faulty variant: the call is made without waiting for the interval
AfterLockNoWaitF(S, t) == StartCallF(S, t)

\* lines 138-142, with _THROTTLE_LOCK held
AfterLockF(S, t) ==
    LET wait_for == S.cfg.interval - (S.now - S.lastTs)
    IN IF wait_for > 0
       THEN [S EXCEPT !.tasks[t].pc = "sleep", !.tasks[t].wakeAt = S.now + wait_for]
       ELSE StartCallF(S, t)

\* asyncio.Lock.acquire: immediate only when unlocked and nobody waits
LockFree(S) == IsNone(S.lockHolder) /\ S.lockWaiters = << >>

\* faulty variant: the throttle lock is taken without waiting for it
ThrottleEnterNoWaitF(S, t) ==
    IF S.cfg.interval <= 0 THEN StartCallF(S, t)
    ELSE AfterLockF([S EXCEPT !.lockHolder = Some(t)], t)

\* _throttled_call up to its first suspension, lines 132-142
ThrottleEnterF(S, t) ==
    IF S.cfg.interval <= 0 THEN StartCallF(S, t)
    ELSE IF LockFree(S) THEN AfterLockF([S EXCEPT !.lockHolder = Some(t)], t)
    ELSE [S EXCEPT !.tasks[t].pc = "wait_lock", !.lockWaiters = Append(@, t)]

\* _throttled_call after the backend method has ended, lines 142-144 and the
\* exit of `async with _THROTTLE_LOCK`
StampF(S, raised) == IF raised THEN S ELSE [S EXCEPT !.lastTs = S.now]

\* history: the backend call of task t has ended
CallEndedF(S, t, raised) ==
    [S EXCEPT !.tasks[t].trace = Append(@, Step("end", None)),
              !.hist.lastEnd = S.now,
              !.hist.lastRaised = raised,
              !.hist.lastPhase = S.tasks[t].phase,
              !.hist.lastTask = t,
              !.hist.searchFailed =
                  IF raised /\ S.tasks[t].phase = "search"
                  THEN @ \cup { KeyOf(S.tasks[t].q) } ELSE @]

ThrottleExitF(S, t, raised) ==
    LET ended == CallEndedF(S, t, raised)
    IN IF S.cfg.interval <= 0 THEN ended
       ELSE [StampF(ended, raised) EXCEPT !.lockHolder = None]

\* faulty variant: the permit is given back but the first waiter is not woken
ReleasePermitNoWakeF(S) == [S EXCEPT !.semValue = @ + 1]

\* asyncio.Semaphore.release: the permit goes to the first waiter, if any
ReleasePermitF(S) ==
    IF S.semWaiters # << >>
    THEN [S EXCEPT !.tasks[Head(S.semWaiters)].pc = "sem_granted",
                   !.semWaiters = Tail(@)]
    ELSE [S EXCEPT !.semValue = @ + 1]

\* faulty variant: the permit is given back only when the lookup found an identity
LookupReturnLeakyF(S, t, result) ==
    IF IsNone(result)
    THEN FinishF(CachePut(S, KeyOf(S.tasks[t].q), result), t, result)
    ELSE FinishF(CachePut(ReleasePermitF(S), KeyOf(S.tasks[t].q), result), t, result)

\* faulty variant: the result is returned without being stored
CacheWriteSkippedF(S, t, result) == S

\* line 313 (and line 307)
CacheWriteF(S, t, result) ==
    NoteF(CachePut(S, KeyOf(S.tasks[t].q), result), t, "cache", None)

\* exit of `async with _SEMAPHORE`, then lines 313-314
LookupReturnF(S, t, result) ==
    FinishF(CacheWriteF(NoteF(ReleasePermitF(S), t, "release", None), t, result), t, result)

(***************************************************************************)
(* _lookup_profile, lines 211-293.                                         *)
(***************************************************************************)
\* lines 229-237: the candidate list of a search response
ExtractCandidates(response) ==
    IF response.shape \in { "list", "data_list" } THEN response.items ELSE << >>

Take(seq, n) == SubSeq(seq, 1, IF n < Len(seq) THEN n ELSE Len(seq))

\* faulty variant: a later candidate with an equal score replaces the running best
ReplacesOnTie(score, best_score, best_candidate) ==
    ~ScoreGt(best_score, score) \/ IsNone(best_candidate)

\* `score > best_score or best_candidate is None`, line 250
Replaces(score, best_score, best_candidate) ==
    ScoreGt(score, best_score) \/ IsNone(best_candidate)

\* the loop of lines 246-252 over the remaining candidates
RECURSIVE SelectFrom(_, _, _, _)
SelectFrom(candidates, job_tokens, best_candidate, best_score) ==
    IF candidates = << >> THEN << best_candidate, best_score >>
    ELSE LET candidate == Head(candidates)
             score == _score_text(_candidate_text(The(candidate.dict)), job_tokens)
         IN IF IsNone(candidate.dict)
            THEN SelectFrom(Tail(candidates), job_tokens, best_candidate, best_score)
            ELSE IF Replaces(score, best_score, best_candidate)
            THEN SelectFrom(Tail(candidates), job_tokens, candidate.dict, score)
            ELSE SelectFrom(Tail(candidates), job_tokens, best_candidate, best_score)

\* lines 243-252: the selection over candidates[:LINKDAPI_MAX_RESULTS]
SelectBest(candidates, job_tokens, max_results) ==
    SelectFrom(Take(candidates, max_results), job_tokens, None, ZeroScore)

UrlPrefix == << "h", "t", "t", "p", "s", ":", "/", "/", "w", "w", "w", ".", "l", "i", "n", "k", "e", "d", "i", "n", ".", "c", "o", "m", "/", "i", "n", "/" >>

\* faulty variant: the score of the profile text replaces the search-level score
DetailScoreReplaces(profile_details, job_tokens, best_score) ==
    IF IsNone(profile_details) THEN best_score
    ELSE _score_text(_profile_text(The(profile_details)), job_tokens)

\* lines 266-271: the score after the profile fetch
DetailScore(profile_details, job_tokens, best_score) ==
    IF IsNone(profile_details) THEN best_score
    ELSE LET detail_score == _score_text(_profile_text(The(profile_details)), job_tokens)
         IN IF ScoreGt(detail_score, best_score) THEN detail_score ELSE best_score

\* faulty variant: a score of 0 is reported as the confidence 0.0
BuildResultZeroConfidence(best_candidate, best_score, public_id, profile_details) ==
    LET details == IF IsNone(profile_details) THEN << >> ELSE The(profile_details).f
    IN [url |-> IF NonEmptyStr(public_id) THEN Some(UrlPrefix \o The(public_id)) ELSE None,
        profile_name |-> IF ~IsNone(Get(details, "fullName")) THEN Get(details, "fullName")
                         ELSE _candidate_name(best_candidate),
        headline |-> IF ~IsNone(Get(details, "headline")) THEN Get(details, "headline")
                     ELSE Get(best_candidate, "headline"),
        confidence |-> Some(Round2(best_score))]

\* lines 273-293: the dict returned for the selected candidate
BuildResult(best_candidate, best_score, public_id, profile_details) ==
    LET details == IF IsNone(profile_details) THEN << >> ELSE The(profile_details).f
    IN [url |-> IF NonEmptyStr(public_id) THEN Some(UrlPrefix \o The(public_id)) ELSE None,
        profile_name |-> IF ~IsNone(Get(details, "fullName")) THEN Get(details, "fullName")
                         ELSE _candidate_name(best_candidate),
        headline |-> IF ~IsNone(Get(details, "headline")) THEN Get(details, "headline")
                     ELSE Get(best_candidate, "headline"),
        confidence |-> IF ScoreGt(best_score, ZeroScore) THEN Some(Round2(best_score))
                       ELSE None]

\* lines 212-224: up to the suspension in the search call
LookupBeginF(S, t) == ThrottleEnterF([S EXCEPT !.tasks[t].phase = "search"], t)

\* lines 224-262: the search call has ended with `outcome`
AfterSearchF(S, t, outcome) ==
    LET S1 == ThrottleExitF(S, t, outcome.raised)
        job_tokens == TokenTable[S.tasks[t].q]
        candidates == ExtractCandidates(outcome)
        picked == SelectBest(candidates, job_tokens, S.cfg.maxResults)
        best_candidate == picked[1]
        best_score == picked[2]
        public_id == _extract_public_identifier(The(best_candidate))
    IN IF outcome.raised THEN LookupReturnF(S1, t, None)
       ELSE IF candidates = << >> THEN LookupReturnF(S1, t, None)
       ELSE IF IsNone(best_candidate) THEN LookupReturnF(S1, t, None)
       ELSE IF NonEmptyStr(public_id)
       THEN ThrottleEnterF([S1 EXCEPT !.tasks[t].phase = "profile",
                                      !.tasks[t].best = best_candidate,
                                      !.tasks[t].best_score = best_score,
                                      !.tasks[t].public_id = public_id], t)
       ELSE LookupReturnF(S1, t,
                Some(BuildResult(The(best_candidate), best_score, public_id, None)))

\* faulty variant: a failed profile fetch discards the selected candidate
AfterProfileDiscardF(S, t, outcome) ==
    LET S1 == ThrottleExitF(S, t, outcome.raised)
        tk == S.tasks[t]
        best_score == DetailScore(outcome.data, TokenTable[tk.q], tk.best_score)
    IN IF outcome.raised THEN LookupReturnF(S1, t, None)
       ELSE LookupReturnF(S1, t,
                Some(BuildResult(The(tk.best), best_score, tk.public_id, outcome.data)))

\* lines 262-293: the profile fetch has ended with `outcome`
AfterProfileF(S, t, outcome) ==
    LET S1 == ThrottleExitF(S, t, outcome.raised)
        tk == S.tasks[t]
        job_tokens == TokenTable[tk.q]
        profile_details == IF outcome.raised THEN None ELSE outcome.data
        best_score == DetailScore(profile_details, job_tokens, tk.best_score)
    IN LookupReturnF(S1, t,
           Some(BuildResult(The(tk.best), best_score, tk.public_id, profile_details)))

(***************************************************************************)
(* find_linkedin_profile, lines 296-314.                                   *)
(***************************************************************************)
\* faulty variant: a permit is taken without looking at the semaphore's value
SemAcquireUnboundedF(S, t) == LookupBeginF([S EXCEPT !.semValue = @ - 1], t)

\* asyncio.Semaphore.acquire: immediate when a permit is free and nobody waits
SemAcquireF(S, t) ==
    IF S.semValue > 0 /\ S.semWaiters = << >>
    THEN LookupBeginF(NoteF([S EXCEPT !.semValue = @ - 1], t, "permit", None), t)
    ELSE NoteF([S EXCEPT !.tasks[t].pc = "wait_sem", !.semWaiters = Append(@, t)],
               t, "wait", None)

\* the shared resources as a lookup finds them: the free permits, and whether
\* some lookup is inside the throttle (waiting for the lock or sleeping)
Busy(S) ==
    [free |-> S.semValue,
     throttled |-> \E u \in Tasks : S.tasks[u].pc \in { "wait_lock", "sleep" }]

\* lines 301-311: from the call to the first suspension (or the return)
FindBeginF(S, t, constructOk) ==
    LET q == S.tasks[t].q
        cache_key == KeyOf(q)
        S1 == GetClientF(S, constructOk)
    IN IF IsNone(Queries[q].name) THEN FailF(S, t)
       ELSE IF CacheHas(S, cache_key)
       THEN FinishF(NoteF(S, t, "hit", Some(Busy(S))), t, CacheGet(S, cache_key))
       ELSE IF IsNone(S1.ret) THEN FinishF(CacheWriteF(S1, t, None), t, None)
       ELSE SemAcquireF(S1, t)

(***************************************************************************)
(* enrich_crew_with_linkedin, lines 317-348.                               *)
(***************************************************************************)
\* a crew record (app.py CrewMember): q names its name, job and tmdb_person_id
Stale == Some(<< "o", "l", "d" >>)
CrewRecord(q, prior) ==
    [q |-> q, department |-> "Visual Effects",
     linkedin_url |-> prior, linkedin_profile_name |-> prior,
     linkedin_headline |-> prior,
     linkedin_confidence |-> IF IsNone(prior) THEN None ELSE Some(1)]
\* the records a crew list is drawn from: one arrives with its fields already set
RecordChoices == { CrewRecord(1, None), CrewRecord(2, Stale), CrewRecord(4, None) }
CrewLists == UNION { [1..n -> RecordChoices] : n \in 0..NRec }

\* lines 318-335: up to the suspension in gather
EnrichBeginF(S, constructOk) ==
    LET crew_list == S.batch.records
        S1 == GetClientF(S, constructOk)
    IN IF crew_list = << >> THEN [S EXCEPT !.batch.pc = "returned"]
       ELSE IF IsNone(S1.ret) THEN [S1 EXCEPT !.batch.pc = "returned"]
       ELSE [S1 EXCEPT !.batch.pc = "gather",
                       !.tasks = [t \in Tasks |->
                                    IF t \in 1..Len(crew_list)
                                    THEN [IdleTask EXCEPT !.pc = "ready",
                                                          !.q = crew_list[t].q]
                                    ELSE S1.tasks[t]]]

\* asyncio.gather(*tasks, return_exceptions=...): one outcome per task, in the
\* order of the tasks
TaskOutcome(tk) == [exception |-> tk.pc = "failed", value |-> tk.result]
GatherResults(S, n) == [i \in 1..n |-> TaskOutcome(S.tasks[i])]
\* faulty variant: gather is called without return_exceptions
PropagateExceptions == FALSE
ReturnExceptions == TRUE
GatherReady(S, n) ==
    IF ReturnExceptions
    THEN \A i \in 1..n : S.tasks[i].pc \in { "done", "failed" }
    ELSE \/ \A i \in 1..n : S.tasks[i].pc \in { "done", "failed" }
         \/ \E i \in 1..n : S.tasks[i].pc = "failed"
GatherRaises(S, n) ==
    ~ReturnExceptions /\ \E i \in 1..n : S.tasks[i].pc = "failed"

\* faulty variant: a no-match result clears the four fields
ApplyResultOverwrite(member, result) ==
    IF result.exception THEN member
    ELSE LET value == IF IsNone(result.value)
                      THEN [url |-> None, profile_name |-> None, headline |-> None,
                            confidence |-> None]
                      ELSE The(result.value)
         IN [member EXCEPT !.linkedin_url = value.url,
                           !.linkedin_profile_name = value.profile_name,
                           !.linkedin_headline = value.headline,
                           !.linkedin_confidence = value.confidence]

\* lines 340-348: the body of the loop for one (member, result) pair
ApplyResult(member, result) ==
    IF result.exception THEN member
    ELSE IF IsNone(result.value) THEN member
    ELSE [member EXCEPT !.linkedin_url = The(result.value).url,
                        !.linkedin_profile_name = The(result.value).profile_name,
                        !.linkedin_headline = The(result.value).headline,
                        !.linkedin_confidence = The(result.value).confidence]

\* zip(crew_list, results), line 339
Zip(crew_list, results) == [i \in 1..Len(crew_list) |-> << crew_list[i], results[i] >>]

(***************************************************************************)
(* Cancellation of the batch while it awaits gather (line 337): gather     *)
(* cancels every task that has not ended, each task gets CancelledError at *)
(* the await where it is suspended, and when all have ended the batch      *)
(* itself gets CancelledError at line 337.  CancelledError is no Exception *)
(* (lines 225 and 263 do not catch it).                                    *)
(***************************************************************************)
Remove(seq, t) == SelectSeq(seq, LAMBDA x : x # t)

\* the lock or permit future the task awaits has been fulfilled already
Woken(S, t) == IsNone(S.lockHolder) /\ S.lockWaiters # << >> /\ Head(S.lockWaiters) = t

\* asyncio.Task.cancel(): a pending future the task awaits is cancelled at
\* once, so that release() passes it over
CancelRequestF(S, t) ==
    LET pc == S.tasks[t].pc
        S1 == [S EXCEPT !.tasks[t].pc = "cancelling", !.tasks[t].was = pc]
    IN IF pc \in { "done", "failed" } THEN S
       ELSE IF pc = "wait_sem" THEN [S1 EXCEPT !.semWaiters = Remove(@, t)]
       ELSE IF pc = "wait_lock" /\ ~Woken(S, t) THEN [S1 EXCEPT !.lockWaiters = Remove(@, t)]
       ELSE S1

EndCancelledF(S, t) ==
    [S EXCEPT !.tasks[t] = [IdleTask EXCEPT !.pc = "cancelled", !.q = S.tasks[t].q,
                                            !.runs = S.tasks[t].runs]]

\* faulty variant: the lock stays with the coroutine that was cancelled
UnlockKeptF(S) == S

\* exit of `async with _THROTTLE_LOCK` by an exception: line 143 is skipped
UnlockF(S) == IF S.cfg.interval <= 0 THEN S ELSE [S EXCEPT !.lockHolder = None]

\* CancelledError is thrown into the coroutine where it was suspended
ThrowCancelledF(S, t) ==
    LET was == S.tasks[t].was
    IN IF was \in { "ready", "wait_sem" } THEN EndCancelledF(S, t)
       ELSE IF was = "sem_granted" THEN EndCancelledF(ReleasePermitF(S), t)
       ELSE IF was = "wait_lock"
       THEN EndCancelledF(ReleasePermitF([S EXCEPT !.lockWaiters = Remove(@, t)]), t)
       ELSE EndCancelledF(ReleasePermitF(UnlockF(S)), t)

RECURSIVE CancelAllF(_, _)
CancelAllF(S, n) == IF n = 0 THEN S ELSE CancelRequestF(CancelAllF(S, n - 1), n)

\* the caller cancels the batch while it is suspended in gather
EnrichCancelF(S) ==
    [CancelAllF(S, Len(S.batch.records)) EXCEPT !.batch.pc = "cancelling"]

\* lines 337-348: gather has ended
EnrichEndF(S) ==
    LET crew_list == S.batch.records
        n == Len(crew_list)
        pairs == Zip(crew_list, GatherResults(S, n))
    IN IF GatherRaises(S, n) THEN [S EXCEPT !.batch.pc = "raised"]
       ELSE [S EXCEPT !.batch.pc = "returned",
                      !.batch.records = [i \in 1..n |-> ApplyResult(pairs[i][1], pairs[i][2])]]

(***************************************************************************)
(* The state machine.                                                      *)
(***************************************************************************)
\* the module right after import under the settings `config`, and a caller
\* holding the crew list `crew`
Loaded(config, crew) ==
    /\ cfg = config
    /\ now = 0
    /\ cache = { }
    /\ semValue = cfg.concurrency
    /\ semWaiters = << >>
    /\ client = None
    /\ clientInit = FALSE
    /\ lockHolder = None
    /\ lockWaiters = << >>
    /\ lastTs = 0
    /\ tasks = [t \in Tasks |-> IdleTask]
    /\ batch = [pc |-> "idle", records |-> crew, given |-> crew]
    /\ log = [search |-> 0, profile |-> 0, warnings |-> 0, constructions |-> 0]
    /\ hist = [returned |-> { }, lastEnd |-> -1, lastRaised |-> FALSE,
               lastPhase |-> "none", lastTask |-> 0, searchFailed |-> { },
               firstCall |-> -1,
               searches |-> [k \in AllKeys |-> 0]]

Init ==
    /\ \E config \in Configs : \E crew \in CrewLists : Loaded(config, crew)
    /\ pure = None
    /\ prov = None

\* time passes while a coroutine sleeps or a backend call is in flight; with
\* an interval of 0 the code never reads the clock (line 134)
Tick ==
    /\ now < MaxTime
    /\ cfg.interval > 0
    /\ \E t \in Tasks : tasks[t].pc \in { "sleep", "call" }
    /\ now' = now + 1
    /\ UNCHANGED << cfg, cache, semValue, semWaiters, client, clientInit, lockHolder,
                    lockWaiters, lastTs, tasks, batch, log, hist, pure, prov >>

\* a caller awaits enrich_crew_with_linkedin(crew)
EnrichStart ==
    /\ batch.pc = "idle"
    /\ \E constructOk \in BOOLEAN : Becomes(EnrichBeginF(State, constructOk))

\* the event loop runs a created task for the first time
TaskStart(t) ==
    /\ tasks[t].pc = "ready"
    /\ \E constructOk \in BOOLEAN : Becomes(FindBeginF(State, t, constructOk))

\* a caller awaits find_linkedin_profile(name, job, tmdb_person_id) directly
SoloStart(t, q) ==
    /\ tasks[t].pc \in { "idle", "done" }
    /\ tasks[t].runs < MaxSoloRuns
    /\ \E constructOk \in BOOLEAN :
          Becomes(FindBeginF([State EXCEPT !.tasks[t] =
                                  [IdleTask EXCEPT !.q = q, !.runs = tasks[t].runs + 1]],
                             t, constructOk))

\* a task that was handed a permit resumes, line 310
SemResume(t) ==
    /\ tasks[t].pc = "sem_granted"
    /\ Becomes(LookupBeginF(NoteF(State, t, "permit", None), t))

\* the first waiter of the released throttle lock resumes, line 137
LockResume(t) ==
    /\ tasks[t].pc = "wait_lock"
    /\ IsNone(lockHolder)
    /\ lockWaiters # << >> /\ Head(lockWaiters) = t
    /\ Becomes(AfterLockF([State EXCEPT !.lockHolder = Some(t),
                                        !.lockWaiters = Tail(@)], t))

\* asyncio.sleep(wait_for) has elapsed, line 141
SleepDone(t) ==
    /\ tasks[t].pc = "sleep"
    /\ now >= tasks[t].wakeAt
    /\ Becomes(StartCallF(State, t))

\* client.search_people returns or raises
SearchReturn(t, outcome) ==
    /\ tasks[t].pc = "call" /\ tasks[t].phase = "search"
    /\ Becomes(AfterSearchF(State, t, outcome))

\* client.get_profile_overview returns or raises
ProfileReturn(t, outcome) ==
    /\ tasks[t].pc = "call" /\ tasks[t].phase = "profile"
    /\ Becomes(AfterProfileF(State, t, outcome))

\* the caller's deadline expires: the batch is cancelled
EnrichCancel ==
    /\ batch.pc = "gather"
    /\ Becomes(EnrichCancelF(State))

\* a cancelled task runs again and ends
TaskCancelled(t) ==
    /\ tasks[t].pc = "cancelling"
    /\ Becomes(ThrowCancelledF(State, t))

\* all tasks of the cancelled batch have ended: line 337 raises CancelledError
EnrichAbort ==
    /\ batch.pc = "cancelling"
    /\ \A i \in 1..Len(batch.records) : tasks[i].pc \in { "done", "failed", "cancelled" }
    /\ Becomes([State EXCEPT !.batch.pc = "cancelled"])

\* gather ends and the results are written to the records
EnrichEnd ==
    /\ batch.pc = "gather"
    /\ GatherReady(State, Len(batch.records))
    /\ Becomes(EnrichEndF(State))

\* the steps of the event loop for a backend whose calls end with `searches`
\* and `profiles`: first without direct callers, then with direct callers
\* asking `queries`
BatchSteps(searches, profiles) ==
    \/ Tick
    \/ EnrichStart
    \/ \E t \in BatchTasks : TaskStart(t)
    \/ \E t \in Tasks : SemResume(t)
    \/ \E t \in Tasks : LockResume(t)
    \/ \E t \in Tasks : SleepDone(t)
    \/ \E t \in Tasks : \E outcome \in searches : SearchReturn(t, outcome)
    \/ \E t \in Tasks : \E outcome \in profiles : ProfileReturn(t, outcome)
    \/ EnrichEnd

NextWith(queries, searches, profiles) ==
    \/ \E t \in SoloTasks : \E q \in queries : SoloStart(t, q)
    \/ BatchSteps(searches, profiles)

Next == NextWith(SoloQueries, SearchOutcomes, ProfileOutcomes)

Spec == Init /\ [][Next]_vars

\* the same process with a caller that may cancel the batch; the backend
\* client is configured and every record of the batch is well formed
Enabled == { config \in Configs : config.lib /\ config.apiKey }
FullLists == [1..NRec -> { r \in RecordChoices : r.q \in WellFormed }]
CancelInit ==
    /\ \E config \in Enabled : \E crew \in FullLists : Loaded(config, crew)
    /\ pure = None
    /\ prov = None
\* the search fails, finds nobody, or returns the two candidates
PlainSearches == { outcome \in SearchOutcomes : outcome.shape = "data_list" \/ outcome.raised }
CancelNext ==
    \/ NextWith({ 1, 3 }, PlainSearches, ProfileOutcomes)
    \/ EnrichCancel
    \/ \E t \in BatchTasks : TaskCancelled(t)
    \/ EnrichAbort
SpecCancel == CancelInit /\ [][CancelNext]_vars

(***************************************************************************)
(* Properties.                                                             *)
(***************************************************************************)
Started(t) == tasks[t].pc \notin { "idle", "ready" }
Begins(t) == ~Started(t) /\ tasks'[t].pc \notin { "idle", "ready", "cancelling", "cancelled" }
HolderPcs == { "sem_granted", "wait_lock", "sleep", "call" }
Holders ==
    { t \in Tasks : \/ tasks[t].pc \in HolderPcs
                    \/ tasks[t].pc = "cancelling" /\ tasks[t].was \in HolderPcs }
Quiescent == \A t \in Tasks : tasks[t].pc \in { "idle", "ready", "done", "failed", "cancelled" }
Disabled == ~cfg.lib \/ ~cfg.apiKey
NoBackendCall == log'.search = log.search /\ log'.profile = log.profile

\* C1: once a lookup of a triple has completed, every lookup of the same triple
\* that begins later returns the value the completed lookup returned and makes
\* no backend call.
C1_Idempotent ==
    [][\A t \in Tasks :
          (Begins(t) /\ \E e \in hist.returned : e[1] = tasks'[t].q)
          => /\ tasks'[t].pc = "done"
             /\ \A e \in hist.returned : e[1] = tasks'[t].q => e[2] = tasks'[t].result
             /\ NoBackendCall]_vars

\* C2: the backend search is called at most once for each cache key.
C2_OneSearchPerKey == \A k \in AllKeys : hist.searches[k] <= 1

\* C3: with a positive interval, a backend call starts no sooner than the
\* interval after the end of the backend call before it, whether that call
\* returned or raised.
C3_Spacing ==
    \A t \in Tasks :
        (cfg.interval > 0 /\ tasks[t].pc = "call" /\ tasks[t].prevEnd >= 0)
        => tasks[t].callStart >= tasks[t].prevEnd + cfg.interval

\* C4: at most N lookups hold a permit, and a lookup waits for a permit only
\* while all N permits are held.
C4_PermitBound ==
    /\ Cardinality(Holders) <= cfg.concurrency
    /\ (\E t \in Tasks : tasks[t].pc = "wait_sem") => Cardinality(Holders) = cfg.concurrency
C4_Witness ==
    /\ cfg.concurrency = 2
    /\ Cardinality(Holders) = 2
    /\ \E t \in Tasks : tasks[t].pc = "wait_sem"
    /\ \E t \in Tasks : tasks[t].pc = "call"

\* C5: the free permits are exactly those no lookup in the backend section
\* holds, so when no lookup is in progress all N permits are available, also
\* after a search or a profile fetch has raised.
C5_NoPermitLeak ==
    /\ semValue = cfg.concurrency - Cardinality(Holders)
    /\ Quiescent => semValue = cfg.concurrency
C5_Witness ==
    /\ Quiescent
    /\ hist.lastRaised /\ hist.lastPhase = "search"
    /\ tasks[hist.lastTask].pc = "done"
    /\ semValue = cfg.concurrency

\* C6: a lookup whose search call raises returns no-match, fetches no profile
\* and caches no-match under its key; every lookup of that key that begins
\* later returns no-match without a backend call.
C6_SearchFailureCached ==
    [][/\ \A t \in Tasks :
             (tasks[t].pc = "call" /\ tasks[t].phase = "search"
                 /\ tasks'[t].pc \notin { "call", "cancelling" } /\ hist'.lastRaised)
             => /\ tasks'[t].pc = "done" /\ IsNone(tasks'[t].result)
                /\ log'.profile = log.profile
                /\ << KeyOf(tasks[t].q), None >> \in cache'
       /\ \A t \in Tasks :
             (Begins(t) /\ ~IsNone(Queries[tasks'[t].q].name)
                 /\ KeyOf(tasks'[t].q) \in hist.searchFailed)
             => /\ tasks'[t].pc = "done" /\ IsNone(tasks'[t].result)
                /\ NoBackendCall]_vars
\* C7: when the profile fetch for the selected candidate raises, the lookup
\* returns an identity whose URL, name, headline and confidence are those of
\* the candidate selected from the search result, with its search-level score.
C7_DetailFailureKeepsPick ==
    [][\A t \in Tasks :
          (tasks[t].pc = "call" /\ tasks[t].phase = "profile"
              /\ tasks'[t].pc \notin { "call", "cancelling" } /\ hist'.lastRaised)
          => LET candidate == The(tasks[t].best)
                 score == tasks[t].best_score
             IN /\ tasks'[t].pc = "done"
                /\ ~IsNone(tasks'[t].result)
                /\ The(tasks'[t].result).url = Some(UrlPrefix \o The(tasks[t].public_id))
                /\ The(tasks'[t].result).profile_name = _candidate_name(candidate)
                /\ The(tasks'[t].result).headline = Get(candidate, "headline")
                /\ The(tasks'[t].result).confidence =
                       IF score[1] = 0 THEN None ELSE Some(Round2(score))
                /\ << KeyOf(tasks[t].q), tasks'[t].result >> \in cache']_vars
C7_Witness ==
    /\ hist.lastRaised /\ hist.lastPhase = "profile"
    /\ tasks[hist.lastTask].pc = "done"
    /\ ~IsNone(tasks[hist.lastTask].result)
    /\ The(tasks[hist.lastTask].result).confidence = Some(50)

\* C8: with no API key or no client library, every lookup returns no-match,
\* no backend call is made and no client is built, and the warning is logged
\* exactly once however many times the client is asked for.
ClientRequests ==
    Cardinality({ t \in Tasks : Started(t) }) + (IF batch.pc = "idle" \/ batch.records = << >> THEN 0 ELSE 1)
C8_DisabledMode ==
    Disabled
    => /\ \A t \in Tasks : tasks[t].pc \in { "idle", "done" } /\ IsNone(tasks[t].result)
       /\ log.search = 0 /\ log.profile = 0 /\ log.constructions = 0
       /\ \A e \in cache : IsNone(e[2])
       /\ log.warnings = (IF ClientRequests > 0 THEN 1 ELSE 0)
C8_Witness ==
    /\ Disabled
    /\ ClientRequests = 2
    /\ \E t \in Tasks : tasks[t].pc = "done"
    /\ log.warnings = 1

\* C9: enrich_crew_with_linkedin never raises; when it has returned after
\* gathering its tasks, every task has ended, a record whose task failed has
\* its four linkedin fields unset, and every other record carries what its own
\* task returned.
Gathered == batch.pc = "returned" /\ \E i \in 1..Len(batch.records) : Started(i)
LinkedinFields(member) ==
    << member.linkedin_url, member.linkedin_profile_name, member.linkedin_headline,
       member.linkedin_confidence >>
ResultFields(result) ==
    << result.url, result.profile_name, result.headline, result.confidence >>
C9_BatchIsolation ==
    /\ batch.pc # "raised"
    /\ Gathered =>
          \A i \in 1..Len(batch.records) :
              /\ tasks[i].pc \in { "done", "failed" }
              /\ tasks[i].pc = "failed"
                    => LinkedinFields(batch.records[i]) = << None, None, None, None >>
              /\ (tasks[i].pc = "done" /\ ~IsNone(tasks[i].result))
                    => LinkedinFields(batch.records[i]) = ResultFields(The(tasks[i].result))
C9_Witness ==
    /\ Gathered
    /\ \E i \in 1..Len(batch.records) : tasks[i].pc = "failed"
    /\ \E i \in 1..Len(batch.records) :
          /\ tasks[i].pc = "done" /\ ~IsNone(tasks[i].result)
          /\ ~IsNone(batch.records[i].linkedin_url)

\* C10: after the batch has returned, a record whose lookup resolved an
\* identity has its four linkedin fields equal to the identity resolved by the
\* task started for that record's own name, job and person id; a record whose
\* lookup ended in no-match or failure has the four fields it was given; no
\* other field of any record has changed.
C10_BatchEffect ==
    batch.pc = "returned" =>
        /\ Len(batch.records) = Len(batch.given)
        /\ \A i \in 1..Len(batch.records) :
              LET member == batch.records[i]
                  before == batch.given[i]
              IN /\ member.q = before.q /\ member.department = before.department
                 /\ IF tasks[i].pc = "done" /\ ~IsNone(tasks[i].result)
                    THEN /\ tasks[i].q = member.q
                         /\ LinkedinFields(member) = ResultFields(The(tasks[i].result))
                    ELSE LinkedinFields(member) = LinkedinFields(before)
C10_Witness ==
    /\ Gathered
    /\ \E i, j \in 1..Len(batch.records) :
          /\ tasks[i].pc = "done" /\ ~IsNone(tasks[i].result)
          /\ batch.records[i].linkedin_confidence = Some(100)
          /\ tasks[j].pc = "done" /\ IsNone(tasks[j].result)
          /\ batch.records[j].linkedin_url = Stale

(***************************************************************************)
(* Function-level specifications.  A function that reads no module state   *)
(* is applied once: `pure` holds its arguments, then its value, and the    *)
(* module stays as it was loaded.                                          *)
(***************************************************************************)
DefaultConfig ==
    [lib |-> TRUE, apiKey |-> TRUE, concurrency |-> 1, interval |-> 1, maxResults |-> 3]
AtRest == Loaded(DefaultConfig, << >>) /\ prov = None
Untouched ==
    UNCHANGED << cfg, now, cache, semValue, semWaiters, client, clientInit, lockHolder,
                 lockWaiters, lastTs, tasks, batch, log, hist, prov >>

MaxCands == 3      \* length of a search response

\* more candidates: a tie with CandA at 1/2, and a second one scoring 0
CandC == Dict({ << "headline", << "a", "r", "t" >> >>, << "publicIdentifier", << "a", "l", "-", "c" >> >> })
CandZ == Dict({ << "summary", << "c", "h", "e", "f" >> >>, << "fullName", << "A", "l", " ", "Z" >> >> })
ResponseItems == { Elem(CandA), Elem(CandB), Elem(CandC), Elem(CandN), Elem(CandZ), NotADict }
Responses == UNION { [1..n -> ResponseItems] : n \in 0..MaxCands }
Jobs == { << "v", "f", "x", " ", "a", "r", "t" >>, << "V", "F", "X" >>, << "f", "x" >> }

\* the selection loop of _lookup_profile applied to one search response
SelectInit ==
    /\ AtRest
    /\ \E candidates \in Responses : \E job \in Jobs : \E max_results \in 0..MaxCands :
          pure = [fn |-> "select", candidates |-> candidates, job |-> job,
                  max_results |-> max_results, done |-> FALSE,
                  best_candidate |-> None, best_score |-> ZeroScore]
SelectApply ==
    /\ pure.fn = "select" /\ ~pure.done
    /\ LET picked == SelectBest(pure.candidates, _tokenize_job(pure.job), pure.max_results)
       IN pure' = [pure EXCEPT !.done = TRUE, !.best_candidate = picked[1],
                               !.best_score = picked[2]]
    /\ Untouched
SpecSelect == SelectInit /\ [][SelectApply]_vars

\* C11: the selected candidate is the earliest of the candidates considered
\* (the dict entries among the first max_results of the response) that has the
\* maximum search-level score, with that score; so a later candidate is taken
\* only for a strictly greater score, and when all score 0 the first one is
\* selected.  Nothing is selected only when nothing is considered.
Considered ==
    { i \in 1..Len(pure.candidates) : i <= pure.max_results /\ ~IsNone(pure.candidates[i].dict) }
SearchScore(i) ==
    _score_text(_candidate_text(The(pure.candidates[i].dict)), _tokenize_job(pure.job))
C11_EarliestMaximum ==
    (pure.fn = "select" /\ pure.done) =>
        IF Considered = { } THEN IsNone(pure.best_candidate)
        ELSE \E i \in Considered :
                /\ pure.best_candidate = pure.candidates[i].dict
                /\ pure.best_score = SearchScore(i)
                /\ \A j \in Considered : ~ScoreGt(SearchScore(j), SearchScore(i))
                /\ \A j \in Considered :
                      j < i => ScoreGt(SearchScore(i), SearchScore(j))
C11_Witness ==
    /\ pure.fn = "select" /\ pure.done
    /\ pure.candidates = << Elem(CandN), Elem(CandA), Elem(CandC) >>
    /\ pure.max_results = 3 /\ pure.job = << "v", "f", "x", " ", "a", "r", "t" >>
    /\ pure.best_candidate = Some(CandA)
C11_WitnessAllZero ==
    /\ pure.fn = "select" /\ pure.done
    /\ pure.candidates = << NotADict, Elem(CandN), Elem(CandZ) >>
    /\ pure.best_candidate = Some(CandN) /\ pure.best_score = ZeroScore

MaxText == 4       \* length of an aggregate text
MaxTokens == 2     \* number of job tokens

\* lower-case aggregate texts and job tokens (tokens have three characters or
\* more, line 55)
TextChars == { "a", "b" }
Texts == UNION { [1..n -> TextChars] : n \in 0..MaxText }
TokenPool == { << "a", "b", "a" >>, << "a", "b", "b" >>, << "b", "a", "b" >> }
TokenSeqs == UNION { [1..n -> TokenPool] : n \in 0..MaxTokens }

\* _score_text applied to two texts under the same tokens
ScoreInit ==
    /\ AtRest
    /\ \E text \in Texts : \E other \in Texts : \E tokens \in TokenSeqs :
          pure = [fn |-> "score", text |-> text, other |-> other, tokens |-> tokens,
                  done |-> FALSE, value |-> ZeroScore, other_value |-> ZeroScore]
ScoreApply ==
    /\ pure.fn = "score" /\ ~pure.done
    /\ pure' = [pure EXCEPT !.done = TRUE,
                            !.value = _score_text(pure.text, pure.tokens),
                            !.other_value = _score_text(pure.other, pure.tokens)]
    /\ Untouched
SpecScore == ScoreInit /\ [][ScoreApply]_vars

\* C12: the score is 0 for an empty token sequence and otherwise the number of
\* tokens (each position counted) that occur as a substring of the text,
\* divided by the number of tokens; it lies in [0,1]; and for the same tokens
\* a text that matches every token another text matches scores no less.
Occurs(token, text) ==
    \E i \in 1..(Len(text) - Len(token) + 1) : SubSeq(text, i, i + Len(token) - 1) = token
Matched(text) == { i \in 1..Len(pure.tokens) : Occurs(pure.tokens[i], text) }
IsRatio(score, m, n) == score[2] > 0 /\ score[1] * n = m * score[2]
C12_ScoreIsRatio ==
    (pure.fn = "score" /\ pure.done) =>
        /\ pure.tokens = << >> => pure.value[1] = 0
        /\ pure.tokens # << >>
              => IsRatio(pure.value, Cardinality(Matched(pure.text)), Len(pure.tokens))
        /\ 0 <= pure.value[1] /\ pure.value[1] <= pure.value[2]
        /\ Matched(pure.text) \subseteq Matched(pure.other)
              => ~ScoreGt(pure.value, pure.other_value)
C12_Witness ==
    /\ pure.fn = "score" /\ pure.done
    /\ pure.tokens = << << "a", "b", "a" >>, << "b", "a", "b" >> >>
    /\ pure.text = << "a", "a", "b", "a" >> /\ pure.other = << "a", "b", "a", "b" >>
    /\ pure.value = << 1, 2 >> /\ pure.other_value = << 2, 2 >>

(***************************************************************************)
(* Scenario A: every query is ('Jane Doe', 'Visual Effects Supervisor'),   *)
(* every search returns the two candidates of the scenario, with or        *)
(* without a public identifier, and no profile fetch yields details.       *)
(***************************************************************************)
Supervisor == << "V", "F", "X", " ", "S", "u", "p", "e", "r", "v", "i", "s", "o", "r", " ", "a", "t", " ", "S", "t", "u", "d", "i", "o", "X" >>
JaneA == Dict({ << "headline", Supervisor >> })
JaneB == Dict({ << "headline", << "A", "c", "c", "o", "u", "n", "t", "a", "n", "t" >> >> })
JaneAId == Dict({ << "headline", Supervisor >>, << "publicIdentifier", << "j", "a", "n", "e", "-", "d", "o", "e" >> >> })
JaneBId == Dict({ << "headline", << "A", "c", "c", "o", "u", "n", "t", "a", "n", "t" >> >>, << "publicIdentifier", << "j", "-", "d", "o", "e" >> >> })
ScenarioASearches == {
    [raised |-> FALSE, shape |-> "data_list", items |-> << Elem(JaneA), Elem(JaneB) >>],
    [raised |-> FALSE, shape |-> "list", items |-> << Elem(JaneAId), Elem(JaneBId) >>] }
NoDetails == { outcome \in ProfileOutcomes : outcome.raised \/ IsNone(outcome.data) }
JaneLists == UNION { [1..n -> { CrewRecord(JaneDoe, None) }] : n \in 0..NRec }

ScenarioAInit ==
    /\ \E config \in Configs : \E crew \in JaneLists : Loaded(config, crew)
    /\ pure = None
    /\ prov = None
ScenarioANext == NextWith({ JaneDoe }, ScenarioASearches, NoDetails)
SpecScenarioA == ScenarioAInit /\ [][ScenarioANext]_vars

\* a lookup of the scenario has returned, the backend client being available
Resolved(t) == tasks[t].pc = "done" /\ tasks[t].q = JaneDoe /\ ~IsNone(client)
SelectsFirst(result) ==
    /\ ~IsNone(result)
    /\ The(result).headline = Some(Supervisor)
    /\ The(result).url \in { None, Some(UrlPrefix \o << "j", "a", "n", "e", "-", "d", "o", "e" >>) }

\* C13 as stated: in scenario A the lookup selects the first candidate and
\* reports confidence 0.67.
C13_ScenarioA ==
    \A t \in Tasks :
        Resolved(t) => /\ SelectsFirst(tasks[t].result)
                       /\ The(tasks[t].result).confidence = Some(67)

\* C13 amended: in scenario A the lookup selects the first candidate and
\* reports confidence 0.33: of the job tokens visual, effects, supervisor only
\* supervisor occurs in 'vfx supervisor at studiox'.
C13_ScenarioAOneThird ==
    \A t \in Tasks :
        Resolved(t) => /\ SelectsFirst(tasks[t].result)
                       /\ The(tasks[t].result).confidence = Some(33)
C13_Witness ==
    \E t \in Tasks :
        /\ Resolved(t) /\ ~IsNone(tasks[t].result)
        /\ The(tasks[t].result).url = Some(UrlPrefix \o << "j", "a", "n", "e", "-", "d", "o", "e" >>)
        /\ The(tasks[t].result).confidence = Some(33)
        /\ log.profile > 0

(***************************************************************************)
(* The cache key of two queries: the first is resolved and cached, then    *)
(* the second is looked up in the cache (lines 301-302 and 313).           *)
(***************************************************************************)
UpperChar(c) ==
    IF \E i \in 1..Len(LowerChars) : LowerChars[i] = c
    THEN UpperChars[CHOOSE i \in 1..Len(LowerChars) : LowerChars[i] = c]
    ELSE c
StrUpper(s) == [i \in 1..Len(s) |-> UpperChar(s[i])]
\* spellings of s that differ from it in letter case and outer whitespace only
Spellings(s) ==
    { s, StrUpper(s), StrLower(s), << " " >> \o s, StrUpper(s) \o << "\t", " " >> }
Names == { << "A", "l" >>, << "B", "o" >> }
JobTitles == { << "V", "f", "x" >>, << "A", "r", "t" >> }
PersonIds == { None, Some(<< "7" >>), Some(<< "8" >>), Some(<< >>), Some(<< "7", "|" >>) }

KeyInit ==
    /\ AtRest
    /\ \E name \in Names, job \in JobTitles, id \in PersonIds,
          name2 \in Names, job2 \in JobTitles, id2 \in PersonIds :
          \E spelt_name \in Spellings(name2), spelt_job \in Spellings(job2) :
             pure = [fn |-> "key", stage |-> "args",
                     first |-> [name |-> name, job |-> job, tmdb_person_id |-> id],
                     second |-> [name |-> spelt_name, job |-> spelt_job,
                                 tmdb_person_id |-> id2],
                     second_plain |-> [name |-> name2, job |-> job2],
                     keys |-> { }, hit |-> FALSE]
\* the first query is resolved: its key enters the cache
KeyResolve ==
    /\ pure.fn = "key" /\ pure.stage = "args"
    /\ pure' = [pure EXCEPT !.stage = "cached",
                            !.keys = { _cache_key(pure.first.name, pure.first.job,
                                                  pure.first.tmdb_person_id) }]
    /\ Untouched
\* the second query is looked up: `cache_key in _CACHE`
KeyProbe ==
    /\ pure.fn = "key" /\ pure.stage = "cached"
    /\ pure' = [pure EXCEPT !.stage = "probed",
                            !.hit = _cache_key(pure.second.name, pure.second.job,
                                               pure.second.tmdb_person_id) \in pure.keys]
    /\ Untouched
SpecKey == KeyInit /\ [][KeyResolve \/ KeyProbe]_vars

\* C14: with the same name and job (in any spelling that differs in letter
\* case and outer whitespace only) and two distinct person ids, the second
\* query does not hit the entry of the first; with the same person id, a second
\* query whose name and job differ from the first's in letter case and outer
\* whitespace only does hit it.
SameNameAndJob ==
    pure.second_plain.name = pure.first.name /\ pure.second_plain.job = pure.first.job
C14_KeyAndPersonId ==
    (pure.fn = "key" /\ pure.stage = "probed") =>
        /\ (/\ SameNameAndJob
            /\ ~IsNone(pure.first.tmdb_person_id) /\ ~IsNone(pure.second.tmdb_person_id)
            /\ pure.first.tmdb_person_id # pure.second.tmdb_person_id)
              => ~pure.hit
        /\ (SameNameAndJob /\ pure.first.tmdb_person_id = pure.second.tmdb_person_id)
              => pure.hit
C14_Witness ==
    /\ pure.fn = "key" /\ pure.stage = "probed"
    /\ pure.first = [name |-> << "A", "l" >>, job |-> << "V", "f", "x" >>, tmdb_person_id |-> Some(<< "7" >>)]
    /\ pure.second = [name |-> << " ", "A", "l" >>, job |-> << "V", "F", "X", "\t", " " >>,
                      tmdb_person_id |-> Some(<< "7" >>)]
    /\ pure.hit
C14_WitnessDistinctIds ==
    /\ pure.fn = "key" /\ pure.stage = "probed"
    /\ pure.first = [name |-> << "A", "l" >>, job |-> << "V", "f", "x" >>, tmdb_person_id |-> Some(<< "7" >>)]
    /\ pure.second = [name |-> << "A", "l" >>, job |-> << "V", "f", "x" >>, tmdb_person_id |-> Some(<< "7", "|" >>)]
    /\ ~pure.hit

\* C15: each cache key is written at most once and no entry is removed or
\* changed: every entry of the cache is still in it after every step, and a
\* lookup that returns from its backend calls (and so writes its key, line
\* 313) finds no entry under that key.
C15_CacheStable ==
    [][/\ \A e \in cache : e \in cache'
       /\ \A t \in Tasks :
             (tasks[t].pc = "call" /\ tasks'[t].pc = "done")
             => ~CacheHas(State, KeyOf(tasks[t].q))]_vars

\* C16: when the batch has been cancelled while lookups were in flight, every
\* record whose lookup had completed with an identity carries that identity,
\* and the other lookups have been abandoned.
Abandoned == { i \in 1..Len(batch.records) : tasks[i].pc = "cancelled" }
C16_DeadlineKeepsCompleted ==
    (batch.pc = "cancelled" /\ Abandoned # { }) =>
        \A i \in 1..Len(batch.records) :
            /\ tasks[i].pc \in { "done", "failed", "cancelled" }
            /\ (tasks[i].pc = "done" /\ ~IsNone(tasks[i].result))
                  => LinkedinFields(batch.records[i]) = ResultFields(The(tasks[i].result))

(***************************************************************************)
(* Scenario C: one batch of records with pairwise distinct cache keys, a   *)
(* positive throttle interval, nothing cached, no other caller, and a      *)
(* backend whose calls return.                                             *)
(***************************************************************************)
Throttled == { config \in Enabled : config.interval > 0 }
DistinctLists ==
    { crew \in UNION { [1..n -> { CrewRecord(q, None) : q \in WellFormed }] : n \in 0..NRec } :
        \A i, j \in 1..Len(crew) : i # j => KeyOf(crew[i].q) # KeyOf(crew[j].q) }
Answers == { outcome \in SearchOutcomes : ~outcome.raised }
ProfileAnswers == { outcome \in ProfileOutcomes : ~outcome.raised }
ScenarioCInit ==
    /\ \E config \in Throttled : \E crew \in DistinctLists : Loaded(config, crew)
    /\ pure = None
    /\ prov = None
ScenarioCNext == BatchSteps(Answers, ProfileAnswers)
SpecScenarioC == ScenarioCInit /\ [][ScenarioCNext]_vars

\* ceil(n / N)
CeilDiv(n, N) == (n + N - 1) \div N

Null == << "null" >>
PStr(s) == << "str", s >>
PInt(n) == << "int", n >>
PMap(m) == << "map", m >>
IsMapping(v) == v[1] = "map"
\* `key in mapping`, mapping[key], mapping.get(key)
Has(d, key) == \E e \in d : e[1] = key
Val(d, key) == (CHOOSE e \in d : e[1] = key)[2]
MapGet(d, key) == IF Has(d, key) THEN Val(d, key) ELSE Null
\* mapping[key] = value
MapSet(d, key, value) == { e \in d : e[1] # key } \cup { << key, value >> }

Digits == << "0", "1", "2", "3", "4", "5", "6", "7", "8", "9" >>
RECURSIVE IntStr(_)
IntStr(n) == IF n < 10 THEN << Digits[n + 1] >> ELSE IntStr(n \div 10) \o << Digits[(n % 10) + 1] >>
\* str(value) of a null, a str or a non-negative int
PyStr(v) ==
    IF v[1] = "str" THEN v[2]
    ELSE IF v[1] = "null" THEN << "N", "o", "n", "e" >>
    ELSE IntStr(v[2])

\* _extract_ip, lines 113-121: None or a str
_extract_ip(instance_data) ==
    LET instance == MapGet(instance_data, "instance")
    IN IF Has(instance_data, "ipAddress") THEN Some(PyStr(Val(instance_data, "ipAddress")))
       ELSE IF IsMapping(instance) /\ Has(instance[2], "ipAddress")
       THEN Some(PyStr(Val(instance[2], "ipAddress")))
       ELSE None

RECURSIVE FirstKey(_, _)
FirstKey(d, keys) ==
    IF keys = << >> THEN None
    ELSE IF Has(d, Head(keys)) THEN Some(PyStr(Val(d, Head(keys))))
    ELSE FirstKey(d, Tail(keys))

\* _extract_instance_id, lines 124-135
_extract_instance_id(instance_data) ==
    LET top == FirstKey(instance_data, << "instanceId", "id" >>)
        instance == MapGet(instance_data, "instance")
    IN IF ~IsNone(top) THEN top
       ELSE IF IsMapping(instance) THEN FirstKey(instance[2], << "instanceId", "id" >>)
       ELSE None

\* Deployment.set_ip, deployment/__init__.py lines 22-26
set_ip(deployment, ip_address) ==
    [deployment EXCEPT !.ip_address = Some(ip_address),
                       !.metadata = MapSet(@, "ipAddress", PStr(ip_address))]

\* Deployment.key_name, lines 28-34 (called with an address set)
key_name(deployment) == << "n", "o", "d", "e", "-" >> \o deployment.name \o << "-" >> \o The(deployment.ip_address)

\* DEFAULT_TEMPLATE, deployment/cloud_init.py lines 11-16, around ${ip_address}
TemplateHead == << "#", "c", "l", "o", "u", "d", "-", "c", "o", "n", "f", "i", "g", "\n", "w", "r", "i", "t", "e", "_", "f", "i", "l", "e", "s", ":", "\n", " ", " ", "-", " ", "p", "a", "t", "h", ":", " ", "/", "e", "t", "c", "/", "n", "o", "d", "e", "-", "i", "p", "\n", " ", " ", " ", " ", "p", "e", "r", "m", "i", "s", "s", "i", "o", "n", "s", ":", " ", "'", "0", "6", "4", "4", "'", "\n", " ", " ", " ", " ", "c", "o", "n", "t", "e", "n", "t", ":", " ", "'" >>
TemplateTail == << "'", "\n" >>
\* render_cloud_init, lines 19-30, with no variables
render_cloud_init(deployment) ==
    LET ip_address == IF NonEmptyStr(deployment.ip_address) THEN The(deployment.ip_address)
                      ELSE << "a", "u", "t", "o" >>
    IN TemplateHead \o ip_address \o TemplateTail

\* str.isupper(): some cased character, and no lower-case one
IsUpperLetter(c) == \E i \in 1..Len(UpperChars) : UpperChars[i] = c
IsLowerLetter(c) == \E i \in 1..Len(LowerChars) : LowerChars[i] = c
isupper(k) ==
    /\ \E i \in 1..Len(k) : IsUpperLetter(k[i])
    /\ ~\E i \in 1..Len(k) : IsLowerLetter(k[i])

\* the order of str values: by code point, character by character
CodeOrder == Digits \o UpperChars \o << "_" >> \o LowerChars
Code(c) == CHOOSE i \in 1..Len(CodeOrder) : CodeOrder[i] = c
RECURSIVE StrLess(_, _)
StrLess(a, b) ==
    IF b = << >> THEN FALSE
    ELSE IF a = << >> THEN TRUE
    ELSE IF Head(a) # Head(b) THEN Code(Head(a)) < Code(Head(b))
    ELSE StrLess(Tail(a), Tail(b))

\* sorted(env_vars.items()): the pairs in the order of their keys
RECURSIVE SortedItems(_)
SortedItems(items) ==
    IF items = { } THEN << >>
    ELSE LET first == CHOOSE e \in items : \A f \in items : f = e \/ StrLess(e[1], f[1])
         IN << first >> \o SortedItems(items \ { first })

KeyNameKey == << "K", "E", "Y", "_", "N", "A", "M", "E" >>

\* faulty variant: a KEY_NAME entry of the payload is kept
ConfigEnvKeepsPayloadName(deployment, payload) ==
    LET upper == { << e[1], PyStr(e[2]) >> : e \in { f \in payload : isupper(f[1]) } }
        env_vars == IF Has(upper, KeyNameKey) THEN upper
                    ELSE MapSet(upper, KeyNameKey, key_name(deployment))
        items == SortedItems(env_vars)
    IN StrJoin(<< "\n" >>, [i \in 1..Len(items) |-> items[i][1] \o << "=" >> \o items[i][2]])

\* TensorDockProvider._generate_config_env, lines 105-110
_generate_config_env(deployment, payload) ==
    LET upper == { << e[1], PyStr(e[2]) >> : e \in { f \in payload : isupper(f[1]) } }
        env_vars == MapSet(upper, KeyNameKey, key_name(deployment))
        items == SortedItems(env_vars)
    IN StrJoin(<< "\n" >>, [i \in 1..Len(items) |-> items[i][1] \o << "=" >> \o items[i][2]])

\* TensorDockProvider._provision_on_host, lines 76-86, for the response of
\* create_instance
_provision_on_host(response) ==
    LET ip_address == _extract_ip(response)
    IN IF NonEmptyStr(ip_address) THEN MapSet(response, "ipAddress", PStr(The(ip_address)))
       ELSE response

\* provision raises ProvisioningError, lines 62 and 65
RaiseF(p) == [p EXCEPT !.pc = "raised"]

\* provision, lines 67-74
ArtefactsF(p, ip_address) ==
    LET deployment == set_ip(p.deployment, ip_address)
    IN [p EXCEPT !.pc = "returned",
                 !.deployment = deployment,
                 !.result = Some([instance_data |-> p.instance_data,
                                  cloud_init |-> render_cloud_init(deployment),
                                  config_env |-> _generate_config_env(deployment, p.payload)])]

\* _wait_for_ip, line 92, and line 64 when the loop has ended
LoopHeadF(p) == IF p.clock < p.deadline THEN [p EXCEPT !.pc = "polling"] ELSE RaiseF(p)

\* provision, lines 57-63: create_instance has returned `response`
ProvisionBeginF(p, response) ==
    LET instance_data == _provision_on_host(response)
        ip_address == _extract_ip(instance_data)
        instance_id == _extract_instance_id(instance_data)
        p1 == [p EXCEPT !.created = Some(response), !.instance_data = instance_data]
    IN IF NonEmptyStr(ip_address) THEN ArtefactsF(p1, The(ip_address))
       ELSE IF ~NonEmptyStr(instance_id) THEN RaiseF(p1)
       ELSE LoopHeadF([p1 EXCEPT !.instance_id = The(instance_id),
                                 !.deadline = p.clock + p.settings.poll_timeout])

\* _wait_for_ip, lines 93-97: one turn of the loop; the sleep and the call
\* take `slack` longer than poll_interval
PollF(p, details, slack) ==
    LET ip_address == _extract_ip(details)
        p1 == [p EXCEPT !.clock = @ + p.settings.poll_interval + slack,
                        !.get_calls = Append(@, p.instance_id),
                        !.polled = Append(@, details)]
    IN IF NonEmptyStr(ip_address) THEN ArtefactsF(p1, The(ip_address))
       ELSE LoopHeadF(p1)

\* ---------------------------------------------------------------------------
\* One call of TensorDockProvider.provision against an API whose responses are
\* arbitrary mappings
\* ---------------------------------------------------------------------------
MaxPayload == 3        \* entries of a payload
MaxPollTimeout == 2    \* poll_timeout, in units of poll_interval

Addr1 == << "1", "9", "8", ".", "5", "1", ".", "1", "0", "0", ".", "4", "2" >>
Addr2 == << "2", "0", "3", ".", "0", ".", "1", "1", "3", ".", "1", "0" >>
Addr3 == << "1", "9", "2", ".", "0", ".", "2", ".", "5", "5" >>
OldAddr == << "1", "9", "2", ".", "0", ".", "2", ".", "1" >>

\* payload entries: upper-case keys, keys that are not upper-case (lower,
\* mixed, without a cased character), a str and an int value, and a KEY_NAME
\* of the payload's own
PayloadEntries ==
    { << << "H", "O", "S", "T" >>, PStr(<< "e", "x", "a", "m", "p", "l", "e" >>) >>,
      << << "p", "o", "r", "t" >>, PInt(22) >>,
      << << "A", "1" >>, PInt(22) >>,
      << << "H", "o", "s", "t" >>, PStr(<< "x" >>) >>,
      << << "_", "1" >>, PStr(<< "y" >>) >>,
      << KeyNameKey, PStr(<< "m", "i", "n", "e" >>) >> }
Payloads == { payload \in SUBSET PayloadEntries : Cardinality(payload) <= MaxPayload }

\* the deployment passed in: a new one, or one that has an address already
Deployments ==
    { [name |-> << "g", "o", "n", "k", "a" >>, ip_address |-> None, metadata |-> { }],
      [name |-> << "r", "a", "c", "e" >>, ip_address |-> Some(OldAddr),
       metadata |-> { << "ipAddress", PStr(OldAddr) >> }] }

PollSettings == { [poll_interval |-> 1, poll_timeout |-> timeout] : timeout \in 0..MaxPollTimeout }

\* responses of create_instance: the top-level 'ipAddress' is absent, null,
\* empty or an address; 'instance' is absent, not a mapping, or a mapping with
\* or without an address and an id; an id is absent or at top level
TopAddresses == { { }, { << "ipAddress", Null >> }, { << "ipAddress", PStr(<< >>) >> },
                  { << "ipAddress", PStr(Addr1) >> } }
Nested ==
    { { }, { << "instance", PStr(<< "p", "e", "n", "d", "i", "n", "g" >>) >> }, { << "instance", PMap({ }) >> },
      { << "instance", PMap({ << "ipAddress", PStr(Addr2) >> }) >> },
      { << "instance", PMap({ << "ipAddress", Null >>, << "id", PInt(7) >> }) >> },
      { << "instance", PMap({ << "instanceId", PStr(<< "n", "1" >>) >> }) >> } }
TopIds == { { }, { << "instanceId", PStr(<< "a", "b", "c", "1", "2", "3" >>) >> }, { << "id", PInt(7) >> } }
CreateResponses == { a \cup n \cup i : a \in TopAddresses, n \in Nested, i \in TopIds }

\* responses of get_instance
PollResponses ==
    { { }, { << "ipAddress", Null >> }, { << "ipAddress", PStr(<< >>) >> },
      { << "instance", PMap({ << "ipAddress", PStr(Addr3) >> }) >> },
      { << "ipAddress", PStr(Addr3) >>, << "status", PStr(<< "u", "p" >>) >> } }

\* a sleep or a call may take longer than asked
Slacks == { 0, 1 }

ServiceUntouched ==
    UNCHANGED << cfg, now, cache, semValue, semWaiters, client, clientInit, lockHolder,
                 lockWaiters, lastTs, tasks, batch, log, hist, pure >>

ProvisionInit ==
    /\ Loaded(DefaultConfig, << >>)
    /\ pure = None
    /\ \E deployment \in Deployments, payload \in Payloads, settings \in PollSettings :
          prov = [pc |-> "called", given |-> deployment, deployment |-> deployment,
                  payload |-> payload, settings |-> settings, clock |-> 0,
                  created |-> None, instance_data |-> { }, instance_id |-> << >>,
                  deadline |-> 0, get_calls |-> << >>, polled |-> << >>, result |-> None]

\* provision up to its first get_instance, to its return or to its raise
ProvisionCreate(response) ==
    /\ prov.pc = "called"
    /\ prov' = ProvisionBeginF(prov, response)
    /\ ServiceUntouched

\* one turn of the loop of _wait_for_ip, and what follows it
ProvisionPoll(details, slack) ==
    /\ prov.pc = "polling"
    /\ prov' = PollF(prov, details, slack)
    /\ ServiceUntouched

ProvisionNext ==
    \/ \E response \in CreateResponses : ProvisionCreate(response)
    \/ \E details \in PollResponses : \E slack \in Slacks : ProvisionPoll(details, slack)
SpecProvision == ProvisionInit /\ [][ProvisionNext]_vars

\* ---------------------------------------------------------------------------
\* Properties of provision
\* ---------------------------------------------------------------------------
\* the addresses a response carries: the str values, not empty, of an
\* 'ipAddress' entry at top level or under 'instance'
AddressOf(d) ==
    IF Has(d, "ipAddress") /\ Val(d, "ipAddress")[1] = "str" /\ Val(d, "ipAddress")[2] # << >>
    THEN { Val(d, "ipAddress")[2] } ELSE { }
Carried(response) ==
    AddressOf(response) \cup
    (IF IsMapping(MapGet(response, "instance")) THEN AddressOf(MapGet(response, "instance")[2])
     ELSE { })
\* the instance ids a response carries, as str
IdsOf(d) == { PyStr(e[2]) : e \in { f \in d : f[1] \in { "instanceId", "id" } /\ f[2] # Null } }
CarriedIds(response) ==
    IdsOf(response) \cup
    (IF IsMapping(MapGet(response, "instance")) THEN IdsOf(MapGet(response, "instance")[2])
     ELSE { })
Returned == prov.pc = "returned"
Auto == << "a", "u", "t", "o" >>

\* C18: when the response of create_instance carries an address, at top level
\* or under 'instance', provision returns with deployment.ip_address set to
\* that address, with a cloud_init that contains it and not the placeholder
\* 'auto', with a config_env that contains KEY_NAME=node-<name>-<address>,
\* and without any call of get_instance.
C18_AddressInCreateResponse ==
    (~IsNone(prov.created) /\ Carried(The(prov.created)) # { }) =>
        /\ Returned
        /\ prov.get_calls = << >>
        /\ \E address \in Carried(The(prov.created)) :
              /\ prov.deployment.ip_address = Some(address)
              /\ Occurs(address, The(prov.result).cloud_init)
              /\ ~Occurs(Auto, The(prov.result).cloud_init)
              /\ Occurs(KeyNameKey \o << "=" >> \o << "n", "o", "d", "e", "-" >> \o prov.deployment.name
                            \o << "-" >> \o address,
                        The(prov.result).config_env)

\* the lines of a text
RECURSIVE SplitLines(_, _)
SplitLines(text, cur) ==
    IF text = << >> THEN << cur >>
    ELSE IF Head(text) = "\n" THEN << cur >> \o SplitLines(Tail(text), << >>)
    ELSE SplitLines(Tail(text), Append(cur, Head(text)))
RECURSIVE LineKey(_)
LineKey(line) ==
    IF line = << >> \/ Head(line) = "=" THEN << >> ELSE << Head(line) >> \o LineKey(Tail(line))
EnvLines == SplitLines(The(prov.result).config_env, << >>)
UpperEntries == { e \in prov.payload : isupper(e[1]) /\ e[1] # KeyNameKey }

\* C19: config_env has exactly one line KEY=value for every payload entry with
\* an upper-case key, no line for a payload entry whose key is not upper-case,
\* exactly one KEY_NAME line, whose value is the key name of the deployment
\* also when the payload has a KEY_NAME entry, no other line, and its lines are
\* in the order of their keys.
C19_ConfigEnvContents ==
    Returned =>
        /\ \A e \in UpperEntries :
              Cardinality({ i \in 1..Len(EnvLines) : LineKey(EnvLines[i]) = e[1] }) = 1
              /\ \E i \in 1..Len(EnvLines) : EnvLines[i] = e[1] \o << "=" >> \o PyStr(e[2])
        /\ \A e \in prov.payload :
              ~isupper(e[1]) => ~\E i \in 1..Len(EnvLines) : LineKey(EnvLines[i]) = e[1]
        /\ Cardinality({ i \in 1..Len(EnvLines) : LineKey(EnvLines[i]) = KeyNameKey }) = 1
        /\ \E i \in 1..Len(EnvLines) :
              EnvLines[i] = KeyNameKey \o << "=" >> \o << "n", "o", "d", "e", "-" >> \o prov.deployment.name
                               \o << "-" >> \o The(prov.deployment.ip_address)
        /\ Len(EnvLines) = Cardinality(UpperEntries) + 1
        /\ \A i, j \in 1..Len(EnvLines) :
              i < j => StrLess(LineKey(EnvLines[i]), LineKey(EnvLines[j]))
\* a payload with an upper-case key that sorts before KEY_NAME, a key that is
\* not upper-case and a KEY_NAME of its own has been turned into a config_env
C19_Witness ==
    /\ Returned
    /\ Has(prov.payload, KeyNameKey)
    /\ Has(prov.payload, << "A", "1" >>)
    /\ Has(prov.payload, << "p", "o", "r", "t" >>)

\* C20: when the response of create_instance carries no address but an
\* instance id, every get_instance call has that id, no poll response before
\* the last one carries an address, and provision returns only after a poll
\* response that carries an address, with deployment.ip_address set to that
\* address and a cloud_init that contains it.
C20_WaitsForAddress ==
    (~IsNone(prov.created) /\ Carried(The(prov.created)) = { }
         /\ CarriedIds(The(prov.created)) # { }) =>
        /\ \A i \in 1..Len(prov.get_calls) : prov.get_calls[i] \in CarriedIds(The(prov.created))
        /\ \A i \in 1..(Len(prov.polled) - 1) : Carried(prov.polled[i]) = { }
        /\ Returned =>
              /\ prov.polled # << >>
              /\ \E address \in Carried(prov.polled[Len(prov.polled)]) :
                    /\ prov.deployment.ip_address = Some(address)
                    /\ Occurs(address, The(prov.result).cloud_init)

\* C21: after every provision that has returned, result.instance_data has a
\* top-level 'ipAddress' entry whose value is deployment.ip_address, wherever
\* the address came from: the top level of the create response, its
\* 'instance' entry, or a later poll response.
C21_InstanceDataAddress ==
    Returned =>
        /\ Has(The(prov.result).instance_data, "ipAddress")
        /\ Val(The(prov.result).instance_data, "ipAddress") = PStr(The(prov.deployment.ip_address))

\* ---------------------------------------------------------------------------
\* Order of the steps of one lookup
\* ---------------------------------------------------------------------------
Trace(t) == tasks[t].trace
At(t, names) == { i \in 1..Len(Trace(t)) : Trace(t)[i].e \in names }
Calls == { "search", "profile" }
\* the lookup of task t has returned and did not find its key in the cache
MissDone(t) == tasks[t].pc = "done" /\ At(t, { "hit" }) = { }
\* what holds of the steps taken so far by any lookup, ended or not
StepOrder(t) ==
    \* a permit is acquired before the first backend call and is not given
    \* back before the last one has ended
    /\ \A i \in At(t, Calls) : \E j \in At(t, { "permit" }) : j < i
    /\ \A i \in At(t, Calls) : \A k \in At(t, { "release" }) :
          \E j \in At(t, { "end" }) : i < j /\ j < k
    \* one search at most, one profile fetch at most
    /\ Cardinality(At(t, { "search" })) <= 1
    /\ Cardinality(At(t, { "profile" })) <= 1
    \* the profile fetch follows the return of the search and asks for the
    \* selected candidate
    /\ \A k \in At(t, { "profile" }) :
          /\ \E i \in At(t, { "search" }) : \E j \in At(t, { "end" }) : i < j /\ j < k
          /\ tasks[t].pc = "call" =>
                Trace(t)[k].arg = _extract_public_identifier(The(tasks[t].best))
          /\ tasks[t].pc = "done" =>
                /\ ~IsNone(tasks[t].result)
                /\ The(tasks[t].result).url = Some(UrlPrefix \o The(Trace(t)[k].arg))
    \* the cache is written after every backend call and before the return
    /\ \A c \in At(t, { "cache" }) :
          /\ \A i \in At(t, Calls) : \E j \in At(t, { "end" }) : i < j /\ j < c
          /\ \A r \in At(t, { "return" }) : c < r
    /\ MissDone(t) => Cardinality(At(t, { "cache" })) = 1

\* C22: in a lookup that missed the cache, a permit is acquired before the
\* first backend call and held until the last one has ended; exactly one
\* search is issued and at most one profile fetch, which follows the return of
\* the search and asks for the selected candidate; the cache is written after
\* all backend calls and before the lookup returns.
C22_StepOrder ==
    \A t \in Tasks :
        /\ StepOrder(t)
        /\ MissDone(t) => Cardinality(At(t, { "search" })) = 1

\* C22 as amended: the same, with exactly one search for a lookup that got a
\* client; a lookup that got none calls no backend method, acquires no
\* permit, and writes no-match to the cache before it returns.
C22_StepOrderWithClient ==
    \A t \in Tasks :
        /\ StepOrder(t)
        /\ MissDone(t) =>
              IF At(t, { "permit" }) # { }
              THEN Cardinality(At(t, { "search" })) = 1
              ELSE /\ At(t, Calls) = { }
                   /\ IsNone(client)
                   /\ IsNone(tasks[t].result)
\* a lookup has returned after a search and a profile fetch
C22_Witness ==
    \E t \in Tasks :
        /\ MissDone(t)
        /\ At(t, { "profile" }) # { }
        /\ semValue = cfg.concurrency

\* C23: a lookup that begins while its key is in the cache returns the cached
\* value in that step: it acquires no permit, does not touch the throttle lock
\* or the client, makes no backend call and leaves the cache as it is, however
\* many permits are free and whoever is in the throttle.
C23_HitNeedsNothing ==
    [][\A t \in Tasks :
          (Begins(t) /\ tasks'[t].q \in WellFormed
              /\ \E e \in cache : e[1] = KeyOf(tasks'[t].q))
          => /\ tasks'[t].pc = "done"
             /\ << KeyOf(tasks'[t].q), tasks'[t].result >> \in cache
             /\ At(t, { "permit" })' = { }
             /\ NoBackendCall
             /\ UNCHANGED << semValue, semWaiters, lockHolder, lockWaiters, lastTs,
                             client, clientInit, cache >>]_vars
\* a lookup found its key in the cache and returned while no permit was free
\* and another lookup was inside the throttle
C23_Witness ==
    \E t \in Tasks :
        /\ tasks[t].pc = "done"
        /\ \E i \in At(t, { "hit" }) :
              /\ The(Trace(t)[i].arg).free = 0
              /\ The(Trace(t)[i].arg).throttled

(***************************************************************************)
(* The detail score: lookups of 'vfx art' whose search returns a selected  *)
(* candidate with search-level score 1/2 or 1 next to another candidate,    *)
(* and whose profile fetch raises or returns no data, an empty profile, a   *)
(* profile that matches both job tokens or a profile that matches none.     *)
(***************************************************************************)
ProfilePoor == [f |-> Dict({ << "headline", << "C", "o", "o", "k" >> >> }), experience |-> << >>]
ProfileEmpty == [f |-> Dict({ }), experience |-> << >>]
DetailSearches == {
    [raised |-> FALSE, shape |-> "data_list", items |-> << Elem(CandA), Elem(CandN) >>],
    [raised |-> FALSE, shape |-> "data_list", items |-> << Elem(CandA), Elem(CandB) >>] }
DetailProfiles ==
    ProfileOutcomes \cup { [raised |-> FALSE, data |-> Some(ProfilePoor)],
                           [raised |-> FALSE, data |-> Some(ProfileEmpty)] }
DetailLists == UNION { [1..n -> { CrewRecord(1, None), CrewRecord(3, None) }] : n \in 0..NRec }
DetailInit ==
    /\ \E config \in Configs : \E crew \in DetailLists : Loaded(config, crew)
    /\ pure = None
    /\ prov = None
DetailNext == NextWith({ 1 }, DetailSearches, DetailProfiles)
SpecDetail == DetailInit /\ [][DetailNext]_vars

MaxScore(a, b) == IF ScoreGt(b, a) THEN b ELSE a
TextScore(outcome, job_tokens) ==
    IF IsNone(outcome.data) THEN ZeroScore
    ELSE _score_text(_profile_text(The(outcome.data)), job_tokens)
Confidence(score) == IF score[1] = 0 THEN None ELSE Some(Round2(score))
\* the headline of a result built with the details of `outcome`
HeadlineWith(outcome, candidate) ==
    IF ~IsNone(outcome.data) /\ ~IsNone(Get(The(outcome.data).f, "headline"))
    THEN Get(The(outcome.data).f, "headline")
    ELSE Get(candidate, "headline")

\* C24: when the profile fetch for the selected candidate returns, the lookup
\* returns an identity whose URL is the one of the candidate selected from the
\* search result and whose score is the greater of that candidate's
\* search-level score and the score of the fetched profile text; no further
\* backend call is made, so no other candidate is fetched.
C24_DetailScore ==
    [][\A t \in Tasks :
          (tasks[t].pc = "call" /\ tasks[t].phase = "profile"
              /\ tasks'[t].pc \notin { "call", "cancelling" } /\ ~hist'.lastRaised)
          => LET candidate == The(tasks[t].best)
                 job_tokens == _tokenize_job(Queries[tasks[t].q].job)
                 search_score == _score_text(_candidate_text(candidate), job_tokens)
             IN /\ tasks'[t].pc = "done"
                /\ ~IsNone(tasks'[t].result)
                /\ The(tasks'[t].result).url =
                       Some(UrlPrefix \o The(_extract_public_identifier(candidate)))
                /\ NoBackendCall
                /\ Cardinality(At(t, { "profile" })') = 1
                /\ \E outcome \in DetailProfiles :
                      /\ ~outcome.raised
                      /\ The(tasks'[t].result).headline = HeadlineWith(outcome, candidate)
                      /\ The(tasks'[t].result).confidence =
                             Confidence(MaxScore(search_score, TextScore(outcome, job_tokens)))]_vars
\* the profile text scored higher than the search text of the selected
\* candidate (1 against 1/2): the confidence is 1.0
C24_Witness ==
    \E t \in Tasks :
        /\ tasks[t].pc = "done" /\ ~IsNone(tasks[t].result)
        /\ At(t, { "profile" }) # { }
        /\ The(tasks[t].result).url = Some(UrlPrefix \o << "a", "l", "-", "a" >>)
        /\ The(tasks[t].result).headline = Some(<< "A", "r", "t", " ", "D", "i", "r", "e", "c", "t", "o", "r" >>)
        /\ The(tasks[t].result).confidence = Some(100)
\* the profile text scored lower (0 against 1/2): the confidence stays 0.5
C24_WitnessLowerDetail ==
    \E t \in Tasks :
        /\ tasks[t].pc = "done" /\ ~IsNone(tasks[t].result)
        /\ The(tasks[t].result).url = Some(UrlPrefix \o << "a", "l", "-", "a" >>)
        /\ The(tasks[t].result).headline = Some(<< "C", "o", "o", "k" >>)
        /\ The(tasks[t].result).confidence = Some(50)

(***************************************************************************)
(* The confidence of a result: one direct caller looks up 'vfx art'; the   *)
(* search raises, finds nobody, or returns a selected candidate with        *)
(* search-level score 0, 1/2 or 1, with or without a public identifier;     *)
(* the profile fetch ends as in the scenario of the detail score.           *)
(***************************************************************************)
\* a candidate that matches no token and has a public identifier, and one
\* without any field
CandQ == Dict({ << "title", << "c", "o", "o", "k" >> >>, << "publicIdentifier", << "a", "l", "-", "q" >> >> })
CandEmpty == Dict({ })
ConfidenceSearches == {
    [raised |-> TRUE, shape |-> "list", items |-> << >>],
    [raised |-> FALSE, shape |-> "data_list", items |-> << >>],
    [raised |-> FALSE, shape |-> "list", items |-> << NotADict >>],
    [raised |-> FALSE, shape |-> "list", items |-> << NotADict, Elem(CandN) >>],
    [raised |-> FALSE, shape |-> "list", items |-> << Elem(CandEmpty) >>],
    [raised |-> FALSE, shape |-> "data_list", items |-> << Elem(CandQ), NotADict >>],
    [raised |-> FALSE, shape |-> "data_list", items |-> << Elem(CandA), Elem(CandN) >>],
    [raised |-> FALSE, shape |-> "data_list", items |-> << Elem(CandA), Elem(CandB) >>] }
ConfidenceInit ==
    /\ \E config \in Configs : Loaded(config, << >>)
    /\ pure = None
    /\ prov = None
\* the steps of one lookup that nothing else runs beside
ConfidenceNext ==
    \/ \E t \in SoloTasks : SoloStart(t, 1)
    \/ Tick
    \/ \E t \in SoloTasks : SleepDone(t)
    \/ \E t \in SoloTasks : \E outcome \in ConfidenceSearches : SearchReturn(t, outcome)
    \/ \E t \in SoloTasks : \E outcome \in DetailProfiles : ProfileReturn(t, outcome)
SpecConfidence == ConfidenceInit /\ [][ConfidenceNext]_vars


\* the job tokens that occur in a text, and their share
TokensIn(text, job_tokens) == { i \in 1..Len(job_tokens) : Occurs(job_tokens[i], text) }
Share(text, job_tokens) ==
    IF job_tokens = << >> THEN ZeroScore
    ELSE << Cardinality(TokensIn(text, job_tokens)), Len(job_tokens) >>
\* the confidence of an identity built for `candidate` and the profile text
\* `profile_text` (empty when no profile was obtained)
ConfidenceOk(confidence, candidate, profile_text, job_tokens) ==
    LET search_text == _candidate_text(candidate)
        final == MaxScore(Share(search_text, job_tokens), Share(profile_text, job_tokens))
    IN /\ IsNone(confidence) <=> /\ TokensIn(search_text, job_tokens) = { }
                                 /\ TokensIn(profile_text, job_tokens) = { }
       /\ ~IsNone(confidence) => /\ The(confidence) = Round2(final)
                                 /\ The(confidence) \in 0..100
ProfileText(outcome) ==
    IF outcome.raised \/ IsNone(outcome.data) THEN << >> ELSE _profile_text(The(outcome.data))
DictsOf(outcome, max_results) ==
    { i \in 1..Len(outcome.items) : /\ i <= max_results
                                    /\ outcome.shape \in { "list", "data_list" }
                                    /\ ~IsNone(outcome.items[i].dict) }

\* C25: a lookup whose search raised or gave no candidate returns none; every
\* other lookup returns an identity, whose confidence is none exactly when no
\* job token occurs in the search text of the selected candidate nor in the
\* text of its fetched profile, and is otherwise the final score rounded to
\* two decimals, between 0 and 1.
C25_ConfidencePresence ==
    [][\A t \in Tasks :
          (tasks[t].pc = "call" /\ tasks'[t].pc = "done")
          => LET job_tokens == _tokenize_job(Queries[tasks[t].q].job)
                 result == tasks'[t].result
             IN IF tasks[t].phase = "search"
                THEN \E outcome \in ConfidenceSearches :
                        /\ outcome.raised = hist'.lastRaised
                        /\ IF outcome.raised \/ DictsOf(outcome, cfg.maxResults) = { }
                           THEN IsNone(result)
                           ELSE /\ ~IsNone(result)
                                /\ \E i \in DictsOf(outcome, cfg.maxResults) :
                                      LET candidate == The(outcome.items[i].dict)
                                      IN /\ The(result).profile_name = _candidate_name(candidate)
                                         /\ The(result).headline = Get(candidate, "headline")
                                         /\ ConfidenceOk(The(result).confidence, candidate,
                                                         << >>, job_tokens)
                ELSE /\ ~IsNone(result)
                     /\ \E outcome \in DetailProfiles :
                           /\ outcome.raised = hist'.lastRaised
                           /\ The(result).headline =
                                  HeadlineWith(outcome, The(tasks[t].best))
                           /\ ConfidenceOk(The(result).confidence, The(tasks[t].best),
                                           ProfileText(outcome), job_tokens)]_vars
\* an identity without confidence has been returned after a profile fetch: the
\* selected candidate and its profile match no job token
C25_Witness ==
    \E t \in Tasks :
        /\ tasks[t].pc = "done" /\ ~IsNone(tasks[t].result)
        /\ The(tasks[t].result).url = Some(UrlPrefix \o << "a", "l", "-", "q" >>)
        /\ The(tasks[t].result).headline = Some(<< "C", "o", "o", "k" >>)
        /\ IsNone(The(tasks[t].result).confidence)
\* an identity with a confidence between 0 and 1 has been returned
C25_WitnessHalf ==
    \E t \in Tasks :
        /\ tasks[t].pc = "done" /\ ~IsNone(tasks[t].result)
        /\ The(tasks[t].result).confidence = Some(50)

\* C26: a task of the batch that had returned from its last backend call when
\* the batch was cancelled has run to its end and has written its cache
\* entry, and the entry of its key is the result it computed, which is what a
\* later lookup of the key returns.
C26_CancelledBatchKeepsEntry ==
    batch.pc \in { "cancelling", "cancelled" } =>
        \A t \in 1..Len(batch.records) :
            (tasks[t].pc = "done" /\ At(t, Calls) # { })
            => /\ At(t, { "cache" }) # { }
               /\ << KeyOf(tasks[t].q), tasks[t].result >> \in cache

\* C27: when the create response carries neither an address nor an instance
\* id, or when the polling has ended without any response that carries an
\* address, provision has raised ProvisioningError, the deployment is as it
\* was passed in and no cloud_init or config_env exists.
C27_ProvisionFailure ==
    (/\ ~IsNone(prov.created)
     /\ Carried(The(prov.created)) = { }
     /\ \/ CarriedIds(The(prov.created)) = { }
        \/ /\ prov.pc # "polling"
           /\ \A i \in 1..Len(prov.polled) : Carried(prov.polled[i]) = { })
    => /\ prov.pc = "raised"
       /\ prov.deployment = prov.given
       /\ IsNone(prov.result)

(***************************************************************************)
(* _tokenize_job applied to one job string: every string of at most MaxJob *)
(* characters over an upper-case letter, a lower-case letter, a digit and   *)
(* a separator, and the example 'VFX Supervisor!!'.                         *)
(***************************************************************************)
MaxJob == 7        \* length of a job string
JobChars == { "V", "x", "3", "!" }
JobStrings == UNION { [1..n -> JobChars] : n \in 0..MaxJob } \cup { << "V", "F", "X", " ", "S", "u", "p", "e", "r", "v", "i", "s", "o", "r", "!", "!" >> }
TokenizeInit ==
    /\ AtRest
    /\ \E job \in JobStrings : pure = [fn |-> "tokenize", job |-> job, done |-> FALSE,
                                       value |-> << >>]
TokenizeApply ==
    /\ pure.fn = "tokenize" /\ ~pure.done
    /\ pure' = [pure EXCEPT !.done = TRUE, !.value = _tokenize_job(pure.job)]
    /\ Untouched
SpecTokenize == TokenizeInit /\ [][TokenizeApply]_vars

\* the maximal runs of a-z and 0-9 in a string, as pairs of first and last index
AlphaNum(c) ==
    \/ \E i \in 1..Len(LowerChars) : LowerChars[i] = c
    \/ \E i \in 1..Len(Digits) : Digits[i] = c
MaximalRuns(s) ==
    { r \in (1..Len(s)) \X (1..Len(s)) :
        /\ r[1] <= r[2]
        /\ \A i \in r[1]..r[2] : AlphaNum(s[i])
        /\ r[1] = 1 \/ ~AlphaNum(s[r[1] - 1])
        /\ r[2] = Len(s) \/ ~AlphaNum(s[r[2] + 1]) }
LongRuns(s) == { r \in MaximalRuns(s) : r[2] - r[1] + 1 >= 3 }

\* C28: the result of tokenize_job is the sequence, in the order of their
\* occurrence, of the maximal runs of a-z and 0-9 of the lower-cased job
\* string that have at least 3 characters.
C28_Tokenize ==
    (pure.fn = "tokenize" /\ pure.done) =>
        LET lower == StrLower(pure.job)
            runs == LongRuns(lower)
        IN /\ Len(pure.value) = Cardinality(runs)
           /\ \A r \in runs :
                 pure.value[1 + Cardinality({ q \in runs : q[1] < r[1] })]
                     = SubSeq(lower, r[1], r[2])
\* a string with a run of 3 that is kept and a run of 2 that is dropped
C28_Witness ==
    /\ pure.fn = "tokenize" /\ pure.done
    /\ pure.job = << "V", "x", "3", "!", "x", "x" >>
    /\ pure.value = << << "v", "x", "3" >> >>
\* the example of the claim
C28_WitnessExample ==
    /\ pure.fn = "tokenize" /\ pure.done
    /\ pure.job = << "V", "F", "X", " ", "S", "u", "p", "e", "r", "v", "i", "s", "o", "r", "!", "!" >>
    /\ pure.value = << << "v", "f", "x" >>, << "s", "u", "p", "e", "r", "v", "i", "s", "o", "r" >> >>

\* C29: with a positive interval at most one backend call is in flight, and a
\* lookup that sleeps in the throttle or has a call in flight holds the
\* throttle lock, whatever the number of permits.
InFlight == { t \in Tasks : tasks[t].pc = "call" }
C29_OneCallInFlight ==
    cfg.interval > 0 =>
        /\ Cardinality(InFlight) <= 1
        /\ \A t \in Tasks : tasks[t].pc \in { "sleep", "call" } => lockHolder = Some(t)
\* two lookups hold a permit each: one has its call in flight, the other
\* waits for the throttle lock
C29_Witness ==
    /\ cfg.interval > 0 /\ cfg.concurrency = 2
    /\ \E t, u \in Tasks : /\ tasks[t].pc = "call"
                           /\ tasks[u].pc = "wait_lock"
                           /\ lockHolder = Some(t)

(***************************************************************************)
(* Progress.  The event loop runs every coroutine that is ready, timers     *)
(* fire once their time has come, and (the assumption of the claim) every   *)
(* backend call returns or raises in the end.  Callers are free to start    *)
(* lookups or not.  The search raises, finds nobody or returns the two      *)
(* candidates; the clock is not stopped while a coroutine sleeps.           *)
(***************************************************************************)
\* time passes beyond MaxTime for a coroutine that sleeps until then
TickOver ==
    /\ now >= MaxTime
    /\ \E t \in Tasks : tasks[t].pc = "sleep" /\ now < tasks[t].wakeAt
    /\ now' = now + 1
    /\ UNCHANGED << cfg, cache, semValue, semWaiters, client, clientInit, lockHolder,
                    lockWaiters, lastTs, tasks, batch, log, hist, pure, prov >>
\* the search raises or returns the two candidates; the profile call returns
\* the profile
LiveSearches == { outcome \in PlainSearches : outcome.raised \/ outcome.items # << >> }
LiveProfiles == { outcome \in ProfileOutcomes : ~IsNone(outcome.data) }
\* two permits, a throttle interval, two well-formed records; or no API key
LiveConfigs == { config \in Configs : (config.lib /\ config.concurrency = 2) \/ ~config.apiKey }
\* the first record is the one a direct caller asks for as well
LiveLists == { crew \in FullLists : crew[1].q = 1 }
LiveInit ==
    /\ \E config \in LiveConfigs : \E crew \in LiveLists : Loaded(config, crew)
    /\ pure = None
    /\ prov = None
LiveNext ==
    \/ NextWith({ 1 }, LiveSearches, LiveProfiles)
    \/ TickOver
\* the clock advances while a coroutine sleeps
Clock == (Tick \/ TickOver) /\ \E t \in Tasks : tasks[t].pc = "sleep" /\ now < tasks[t].wakeAt
\* the steps the event loop makes a started lookup take
Runs(t) ==
    \/ t \in BatchTasks /\ TaskStart(t)
    \/ SemResume(t)
    \/ LockResume(t)
    \/ SleepDone(t)
\* the backend call of a lookup returns or raises
CallReturns(t) ==
    \/ \E outcome \in LiveSearches : SearchReturn(t, outcome)
    \/ \E outcome \in LiveProfiles : ProfileReturn(t, outcome)
\* WF_vars(CallReturns(t)) written out: the action is enabled exactly while
\* the lookup is suspended in its call
CallsEnd(t) == []<>(tasks[t].pc # "call") \/ []<><<CallReturns(t)>>_vars
Fairness ==
    /\ WF_vars(Clock)
    /\ WF_vars(EnrichEnd)
    /\ \A t \in Tasks : WF_vars(Runs(t)) /\ CallsEnd(t)
SpecLive == LiveInit /\ [][LiveNext]_vars /\ Fairness

Running(t) == tasks[t].pc \notin { "idle", "done", "failed" }
\* C30: every lookup that has been started for a name that is a str returns,
\* and a batch that awaits its tasks
\* completes: no lookup waits forever for the client, a permit or the
\* throttle lock.
C30_Progress ==
    /\ \A t \in Tasks : Running(t) ~> (tasks[t].pc = "done")
    /\ (batch.pc = "gather") ~> (batch.pc = "returned")
\* a batch has completed and all lookups have returned, one of them after it
\* was suspended for a permit and had slept beyond MaxTime for its profile call
C30_Witness ==
    /\ batch.pc = "returned"
    /\ \A t \in Tasks : tasks[t].pc = "done" /\ At(t, Calls) # { }
    /\ \E t \in Tasks : At(t, { "wait" }) # { } /\ At(t, { "profile" }) # { }
    /\ now > MaxTime


(***************************************************************************)
(* What a cancelled lookup leaves behind.                                   *)
(***************************************************************************)
\* CancelledError ends the lookup of task t
Thrown(t) == tasks[t].pc = "cancelling" /\ tasks'[t].pc = "cancelled"
\* C31: the step in which CancelledError ends a lookup that was suspended
\* (for a permit, in the throttle, or in a backend call) writes nothing to
\* the cache and leaves the last-request timestamp alone; after it the lookup
\* holds neither the throttle lock nor a place in a queue, and the permit it
\* held is free or has gone to the first waiter.
C31_CancelledLeavesNoTrace ==
    [][\A t \in Tasks :
          Thrown(t) =>
             /\ cache' = cache
             /\ lastTs' = lastTs
             /\ log' = log
             /\ lockHolder' # Some(t)
             /\ \A i \in 1..Len(lockWaiters') : lockWaiters'[i] # t
             /\ \A i \in 1..Len(semWaiters') : semWaiters'[i] # t
             /\ t \notin Holders'
             /\ semValue' = cfg.concurrency - Cardinality(Holders')
             /\ (tasks[t].was \in { "sleep", "call" } /\ cfg.interval > 0)
                   => IsNone(lockHolder')]_vars
\* both lookups of a batch have been cancelled, one of them in its backend
\* call under the throttle lock: nothing is cached, no call was stamped
\* although time has passed, and the direct caller that waited for the lock
\* is the one to take it
C31_Witness ==
    /\ batch.pc \in { "cancelling", "cancelled" }
    /\ \A t \in BatchTasks : tasks[t].pc = "cancelled"
    /\ \E t \in SoloTasks : tasks[t].pc = "wait_lock" /\ Woken(State, t)
    /\ cache = { } /\ lastTs = 0 /\ now > 0
    /\ semValue = cfg.concurrency - 1


(***************************************************************************)
(* The cache key of two queries whose name, job or person id may contain    *)
(* the separator of the key.                                                *)
(***************************************************************************)
BarNames == { << "a" >>, << "b" >>, << "a", "|", "b" >> }
BarJobs == { << "c" >>, << "b", "|", "c" >>, << " ", "C" >> }
BarIds == { None, Some(<< "7" >>), Some(<< "7", "|", "a" >>) }
BarQueries == [name : BarNames, job : BarJobs, tmdb_person_id : BarIds]
InjectiveInit ==
    /\ AtRest
    /\ \E first \in BarQueries, second \in BarQueries :
          pure = [fn |-> "key", stage |-> "args", first |-> first, second |-> second,
                  second_plain |-> [name |-> second.name, job |-> second.job],
                  keys |-> { }, hit |-> FALSE]
SpecInjective == InjectiveInit /\ [][KeyResolve \/ KeyProbe]_vars

\* what the claim calls the normalized query
Normalized(q) ==
    << IF IsNone(q.tmdb_person_id) THEN << >> ELSE The(q.tmdb_person_id),
       StrLower(StrStrip(q.name)), StrLower(StrStrip(q.job)) >>
\* C32: a query whose normalized triple (person id or empty, name, job)
\* differs from the triple of the query that was cached does not find that
\* entry under its own key.
C32_KeysInjective ==
    (pure.fn = "key" /\ pure.stage = "probed" /\ Normalized(pure.first) # Normalized(pure.second))
        => ~pure.hit


\* C33: after a successful provision the address of the deployment is an
\* address that the create response or one of the poll responses carried; a
\* null 'ipAddress' entry carries none.
C33_RealAddressOnly ==
    Returned =>
        \E address \in Carried(The(prov.created))
                         \cup UNION { Carried(prov.polled[i]) : i \in 1..Len(prov.polled) } :
            prov.deployment.ip_address = Some(address)


(***************************************************************************)
(* The backend client is initialised once.                                  *)
(***************************************************************************)
\* the lookup of task t begins and does not find its key in the cache, so it
\* calls _get_client (line 305)
BeginsMiss(t) ==
    /\ Begins(t)
    /\ tasks'[t].q \in WellFormed
    /\ ~\E e \in cache : e[1] = KeyOf(tasks'[t].q)
\* the batch begins with records, so it calls _get_client
BatchBegins == batch.pc = "idle" /\ batch.pc' # "idle" /\ batch.records # << >>
\* C34: the client is constructed at most once; once _get_client has
\* initialised, no later call constructs or changes the client: after a
\* failed construction every later call returns no client (the lookup
\* returns no-match without a backend call, the batch returns at once), and
\* after a successful one every later call returns the client that was built
\* (the lookup goes on to the permit, the batch starts its tasks).
C34_ClientOneShot ==
    [][/\ log'.constructions <= 1
       /\ ~IsNone(client') => clientInit' /\ log'.constructions = 1
       /\ clientInit => /\ clientInit'
                        /\ client' = client
                        /\ log'.constructions = log.constructions
       /\ \A t \in Tasks :
             BeginsMiss(t) =>
                /\ clientInit'
                /\ IF IsNone(client')
                   THEN /\ tasks'[t].pc = "done" /\ IsNone(tasks'[t].result)
                        /\ NoBackendCall
                   ELSE tasks'[t].pc \in { "wait_sem", "wait_lock", "sleep", "call" }
       /\ BatchBegins => /\ clientInit'
                         /\ batch.pc' = IF IsNone(client') THEN "returned" ELSE "gather"]_vars
\* the construction failed once; the batch and the direct lookup both called
\* _get_client, the later of them got no client without a second construction:
\* the batch returned at once and the lookup returned no-match without a call
C34_Witness ==
    /\ cfg.lib /\ cfg.apiKey
    /\ log.constructions = 1 /\ IsNone(client) /\ clientInit
    /\ batch.pc = "returned" /\ batch.records # << >>
    /\ \E t \in SoloTasks : /\ tasks[t].pc = "done" /\ IsNone(tasks[t].result)
                            /\ At(t, { "cache" }) # { } /\ At(t, Calls) = { }
    /\ log.search = 0
\* the construction succeeded once and a later lookup made its calls with it
C34_WitnessBuilt ==
    /\ log.constructions = 1 /\ ~IsNone(client)
    /\ Cardinality({ t \in Tasks : tasks[t].pc = "done" /\ At(t, Calls) # { } }) >= 2

====
